---- MODULE Spec2Model ----
(***************************************************************************)
(* A model of the listening-profile engine of spotify-documentary:         *)
(* identity-profile.ts, emotional-profile.ts, nocturnal-analysis.ts and    *)
(* transformer.ts, and of the SpotifyService of service.ts.                *)
(*                                                                         *)
(* JavaScript numbers are modelled as exact rationals <<n, d>> with d > 0  *)
(* in lowest terms, so two numbers are equal iff their pairs are equal.    *)
(* A division by zero yields the string "NaN", on which no arithmetic is   *)
(* defined, so TLC stops with an error if the code could divide by zero.   *)
(* Strings are TLA+ strings; where the code looks inside a string          *)
(* (toLowerCase, includes) the model works on its characters, Chars(s).    *)
(***************************************************************************)
EXTENDS Integers, Sequences, FiniteSets, TLC

VARIABLES
    done,               \* the operations that have run on the inputs below
    topArtists,         \* SpotifyArtist[]  ranked, rank 0 first
    topTracks,          \* SpotifyTrack[]
    claimedGenres,      \* string[]
    recentlyPlayed,     \* SpotifyPlayHistory[]
    audioFeatures,      \* Map<string, SpotifyAudioFeatures>
    byRange,            \* { long, medium, short } : SpotifyTrack[]
    genres,             \* result of aggregateGenres(topArtists)
    proxyGenres,        \* result of aggregateGenresFromArtists(topArtists)
    identity,           \* IdentityProfile
    confrontation,      \* which return of generateIdentityConfrontation was taken
    emotional,          \* EmotionalProfile
    quarterlyBreakdown, \* QuarterlyListening[]
    drift,              \* result of calculateIdentityDrift
    repeatLoops,        \* RepeatLoop[], result of detectRepeatLoops
    insomnia,           \* result of detectInsomniaPatterns
    nocturnal,          \* NocturnalProfile
    listeningProfile,   \* ListeningProfile, result of buildListeningProfile
    rerun,              \* result of a second buildListeningProfile on the same inputs
    zoneEntropy,        \* transformer.ts calculateGenreEntropy of the identity's genres
    windowEntropy,      \* identity-profile.ts calculateGenreEntropy of a window's genres
    now,                \* Date.now(), in milliseconds
    accessToken,        \* SpotifyService.accessToken
    tokenExpiry,        \* SpotifyService.tokenExpiry
    localStorage,       \* the four keys the service keeps in localStorage
    inFlight,           \* API requests sent and not yet answered
    exchange,           \* token exchanges sent and not yet answered
    outcome,            \* the last call of the service: what it found, returned or threw
    calls               \* number of service steps taken

vars == <<done, topArtists, topTracks, claimedGenres, recentlyPlayed, audioFeatures,
          byRange, genres, proxyGenres, identity, confrontation, emotional,
          quarterlyBreakdown, drift, repeatLoops, insomnia, nocturnal,
          listeningProfile, rerun, zoneEntropy, windowEntropy, now,
          accessToken, tokenExpiry, localStorage, inFlight, exchange, outcome, calls>>

inputs == <<topArtists, topTracks, claimedGenres, recentlyPlayed, audioFeatures, byRange>>

analysis == <<done, genres, proxyGenres, identity, confrontation, emotional,
              quarterlyBreakdown, drift>>

night == <<repeatLoops, insomnia, nocturnal>>

built == <<listeningProfile, rerun, zoneEntropy, windowEntropy>>

service == <<accessToken, tokenExpiry, localStorage, inFlight, exchange, outcome, calls>>

----------------------------------------------------------------------------
(* Numbers *)

Abs(x) == IF x < 0 THEN -x ELSE x

RECURSIVE Gcd(_, _)
Gcd(a, b) == IF b = 0 THEN a ELSE Gcd(b, a % b)

Rat(n, d) ==
    IF d = 0 THEN "NaN"
    ELSE LET g == Gcd(Abs(n), Abs(d))
             s == IF d < 0 THEN -1 ELSE 1
         IN  <<(s * n) \div g, (s * d) \div g>>

Zero == <<0, 1>>
One == <<1, 1>>

RAdd(a, b) == Rat(a[1] * b[2] + b[1] * a[2], a[2] * b[2])
RSub(a, b) == Rat(a[1] * b[2] - b[1] * a[2], a[2] * b[2])
RMul(a, b) == Rat(a[1] * b[1], a[2] * b[2])
RDiv(a, b) == Rat(a[1] * b[2], a[2] * b[1])
RLt(a, b) == a[1] * b[2] < b[1] * a[2]
RGt(a, b) == RLt(b, a)
RAbs(a) == <<Abs(a[1]), a[2]>>
RMin(a, b) == IF RLt(b, a) THEN b ELSE a

RECURSIVE RSum(_)
RSum(values) == IF values = <<>> THEN Zero ELSE RAdd(Head(values), RSum(Tail(values)))

\* average in part_002:25 and part_003:869
average(values) ==
    IF Len(values) = 0 THEN Zero ELSE RDiv(RSum(values), <<Len(values), 1>>)

----------------------------------------------------------------------------
(* Strings *)

Chars(s) ==
    CASE s = "canadian contemporary r&b" -> <<"c", "a", "n", "a", "d", "i", "a", "n", " ", "c", "o", "n", "t", "e", "m", "p", "o", "r", "a", "r", "y", " ", "r", "&", "b">>
      [] s = "pop" -> <<"p", "o", "p">>
      [] s = "r&b" -> <<"r", "&", "b">>
      [] s = "country pop" -> <<"c", "o", "u", "n", "t", "r", "y", " ", "p", "o", "p">>
      [] s = "canadian hip hop" -> <<"c", "a", "n", "a", "d", "i", "a", "n", " ", "h", "i", "p", " ", "h", "o", "p">>
      [] s = "hip hop" -> <<"h", "i", "p", " ", "h", "o", "p">>
      [] s = "pop rap" -> <<"p", "o", "p", " ", "r", "a", "p">>
      [] s = "art pop" -> <<"a", "r", "t", " ", "p", "o", "p">>
      [] s = "electropop" -> <<"e", "l", "e", "c", "t", "r", "o", "p", "o", "p">>
      [] s = "garage rock" -> <<"g", "a", "r", "a", "g", "e", " ", "r", "o", "c", "k">>
      [] s = "indie rock" -> <<"i", "n", "d", "i", "e", " ", "r", "o", "c", "k">>
      [] s = "permanent wave" -> <<"p", "e", "r", "m", "a", "n", "e", "n", "t", " ", "w", "a", "v", "e">>
      [] s = "rock" -> <<"r", "o", "c", "k">>
      [] s = "sheffield indie" -> <<"s", "h", "e", "f", "f", "i", "e", "l", "d", " ", "i", "n", "d", "i", "e">>
      [] s = "jazz" -> <<"j", "a", "z", "z">>
      [] s = "techno" -> <<"t", "e", "c", "h", "n", "o">>
      [] s = "Neo Soul" -> <<"N", "e", "o", " ", "S", "o", "u", "l">>
      [] s = "ambient" -> <<"a", "m", "b", "i", "e", "n", "t">>
      [] s = "Pop" -> <<"P", "o", "p">>
      [] s = "Jazz" -> <<"J", "a", "z", "z">>
      [] s = "indie" -> <<"i", "n", "d", "i", "e">>
      [] s = "" -> <<>>
      [] s = "dance pop" -> <<"d", "a", "n", "c", "e", " ", "p", "o", "p">>
      [] s = "synthpop" -> <<"s", "y", "n", "t", "h", "p", "o", "p">>
      [] s = "indie pop" -> <<"i", "n", "d", "i", "e", " ", "p", "o", "p">>
      [] s = "rap" -> <<"r", "a", "p">>
      [] s = "trap" -> <<"t", "r", "a", "p">>
      [] s = "alternative rock" -> <<"a", "l", "t", "e", "r", "n", "a", "t", "i", "v", "e", " ", "r", "o", "c", "k">>
      [] s = "pop rock" -> <<"p", "o", "p", " ", "r", "o", "c", "k">>
      [] s = "edm" -> <<"e", "d", "m">>
      [] s = "electronic" -> <<"e", "l", "e", "c", "t", "r", "o", "n", "i", "c">>
      [] s = "house" -> <<"h", "o", "u", "s", "e">>
      [] s = "contemporary r&b" -> <<"c", "o", "n", "t", "e", "m", "p", "o", "r", "a", "r", "y", " ", "r", "&", "b">>
      [] s = "soul" -> <<"s", "o", "u", "l">>
      [] s = "country" -> <<"c", "o", "u", "n", "t", "r", "y">>
      [] s = "pop country" -> <<"p", "o", "p", " ", "c", "o", "u", "n", "t", "r", "y">>
      [] s = "bossa nova" -> <<"b", "o", "s", "s", "a", " ", "n", "o", "v", "a">>
      [] s = "samba" -> <<"s", "a", "m", "b", "a">>
      [] s = "mpb" -> <<"m", "p", "b">>
      [] s = "tropicalia" -> <<"t", "r", "o", "p", "i", "c", "a", "l", "i", "a">>
      [] s = "forro" -> <<"f", "o", "r", "r", "o">>
      [] s = "choro" -> <<"c", "h", "o", "r", "o">>
      [] s = "baile funk" -> <<"b", "a", "i", "l", "e", " ", "f", "u", "n", "k">>
      [] s = "sertanejo" -> <<"s", "e", "r", "t", "a", "n", "e", "j", "o">>

LowerChar(c) ==
    CASE c = "A" -> "a" [] c = "B" -> "b" [] c = "C" -> "c" [] c = "D" -> "d"
      [] c = "E" -> "e" [] c = "F" -> "f" [] c = "G" -> "g" [] c = "H" -> "h"
      [] c = "I" -> "i" [] c = "J" -> "j" [] c = "K" -> "k" [] c = "L" -> "l"
      [] c = "M" -> "m" [] c = "N" -> "n" [] c = "O" -> "o" [] c = "P" -> "p"
      [] c = "Q" -> "q" [] c = "R" -> "r" [] c = "S" -> "s" [] c = "T" -> "t"
      [] c = "U" -> "u" [] c = "V" -> "v" [] c = "W" -> "w" [] c = "X" -> "x"
      [] c = "Y" -> "y" [] c = "Z" -> "z" [] OTHER -> c

\* String.prototype.toLowerCase, on the characters of a string
toLowerCase(cs) == [i \in 1..Len(cs) |-> LowerChar(cs[i])]

\* String.prototype.includes, on the characters of two strings
includes(hay, needle) ==
    \E i \in 1..(Len(hay) - Len(needle) + 1) :
        SubSeq(hay, i, i + Len(needle) - 1) = needle

----------------------------------------------------------------------------
(* Map<string, number> keeps its keys in insertion order: a sequence of    *)
(* <<key, value>> pairs; set() on a present key keeps the key's position.  *)

MapHas(m, k) == \E i \in 1..Len(m) : m[i][1] = k
MapGet(m, k) == m[CHOOSE i \in 1..Len(m) : m[i][1] = k][2]
MapSet(m, k, v) ==
    IF MapHas(m, k)
    THEN [i \in 1..Len(m) |-> IF m[i][1] = k THEN <<k, v>> ELSE m[i]]
    ELSE Append(m, <<k, v>>)
MapValues(m) == [i \in 1..Len(m) |-> m[i][2]]

\* Array.prototype.flatMap, on the mapped arrays
RECURSIVE Flatten(_)
Flatten(ss) == IF ss = <<>> THEN <<>> ELSE Head(ss) \o Flatten(Tail(ss))

\* Array.prototype.slice(0, n)
Slice(s, n) == SubSeq(s, 1, IF Len(s) < n THEN Len(s) ELSE n)

\* The same step of a sort that is not stable: x goes ahead of its equals
InsertAheadOfTies(sorted, x) ==
    LET k == Cardinality({i \in 1..Len(sorted) : RGt(sorted[i].weight, x.weight)})
    IN  SubSeq(sorted, 1, k) \o <<x>> \o SubSeq(sorted, k + 1, Len(sorted))

\* One step of a stable sort by (a, b) => b.weight - a.weight: x goes behind
\* every element that does not weigh less than x.
InsertByWeight(sorted, x) ==
    LET k == Cardinality({i \in 1..Len(sorted) : ~RLt(sorted[i].weight, x.weight)})
    IN  SubSeq(sorted, 1, k) \o <<x>> \o SubSeq(sorted, k + 1, Len(sorted))

RECURSIVE SortFrom(_, _)
SortFrom(sorted, rest) ==
    IF rest = <<>> THEN sorted
    ELSE SortFrom(InsertByWeight(sorted, Head(rest)), Tail(rest))

\* Array.prototype.sort((a, b) => b.weight - a.weight), stable since ES2019
SortByWeightDesc(s) == SortFrom(<<>>, s)

----------------------------------------------------------------------------
(* Provider records.  Artists "1".."5" are those of generateMockData; the  *)
(* others add the shapes the mock data lacks: a single tag, a tag with     *)
(* capitals, no tag at all.                                                *)

Artist(id) ==
    CASE id = "1" -> [id |-> "1", popularity |-> 95,
                      genres |-> <<"canadian contemporary r&b", "pop", "r&b">>]
      [] id = "2" -> [id |-> "2", popularity |-> 98,
                      genres |-> <<"pop", "country pop">>]
      [] id = "3" -> [id |-> "3", popularity |-> 94,
                      genres |-> <<"canadian hip hop", "hip hop", "pop rap", "r&b">>]
      [] id = "4" -> [id |-> "4", popularity |-> 91,
                      genres |-> <<"art pop", "electropop", "pop">>]
      [] id = "5" -> [id |-> "5", popularity |-> 85,
                      genres |-> <<"garage rock", "indie rock", "permanent wave", "rock",
                                   "sheffield indie">>]
      [] id = "6" -> [id |-> "6", popularity |-> 50, genres |-> <<"jazz">>]
      [] id = "7" -> [id |-> "7", popularity |-> 10, genres |-> <<"techno">>]
      [] id = "8" -> [id |-> "8", popularity |-> 30, genres |-> <<"Neo Soul", "ambient">>]
      [] id = "9" -> [id |-> "9", popularity |-> 5, genres |-> <<>>]
      [] id = "10" -> [id |-> "10", popularity |-> 70, genres |-> <<"pop">>]
      [] id = "11" -> [id |-> "11", popularity |-> 40,
                       genres |-> <<"bossa nova", "samba", "mpb", "tropicalia", "forro",
                                    "choro", "baile funk", "sertanejo">>]
      [] id = "12" -> [id |-> "12", popularity |-> 100, genres |-> <<"pop">>]
      [] id = "13" -> [id |-> "13", popularity |-> 0, genres |-> <<"jazz">>]

\* A track as the analyzers read it: id, name, artists (first = primary),
\* duration_ms
Track(id, artistIds, ms) ==
    [id |-> id, name |-> "Track " \o id,
     artists |-> [i \in 1..Len(artistIds) |-> Artist(artistIds[i])],
     duration_ms |-> ms]

\* Every ranking of at most n distinct artists of a pool
RankedArtists(pool, n) ==
    {[i \in DOMAIN s |-> Artist(s[i])] :
        s \in {t \in UNION {[1..k -> pool] : k \in 0..n} :
                  \A i, j \in DOMAIN t : i # j => t[i] # t[j]}}

----------------------------------------------------------------------------
(* identity-profile.ts *)

MAINSTREAM_GENRES ==
    {"pop", "dance pop", "electropop", "synthpop", "indie pop",
     "hip hop", "rap", "trap", "pop rap",
     "rock", "alternative rock", "indie rock", "pop rock",
     "edm", "electronic", "house", "techno",
     "r&b", "contemporary r&b", "soul",
     "country", "pop country"}

\* Math.log2, exact on the powers of two; any other argument has an
\* irrational logarithm, which the model does not represent.
RECURSIVE Log2(_)
Log2(p) ==
    IF p = One THEN Zero
    ELSE IF p[1] = 1 /\ p[2] % 2 = 0 THEN RSub(Log2(<<1, p[2] \div 2>>), One)
    ELSE IF p[2] = 1 /\ p[1] % 2 = 0 THEN RAdd(Log2(<<p[1] \div 2, 1>>), One)
    ELSE "irrational"

Weights(gs) == [i \in 1..Len(gs) |-> gs[i].weight]

RECURSIVE EntropyFrom(_, _, _)
EntropyFrom(entropy, gs, totalWeight) ==
    IF gs = <<>> THEN entropy
    ELSE LET probability == RDiv(Head(gs).weight, totalWeight)
         IN  EntropyFrom(IF RGt(probability, Zero)
                         THEN RSub(entropy, RMul(probability, Log2(probability)))
                         ELSE entropy,
                         Tail(gs), totalWeight)

\* The entropy with the sign of the sum kept: the sum of p * log2(p)
calculateGenreEntropyNegated(gs) ==
    IF Len(gs) = 0 THEN Zero ELSE RSub(Zero, EntropyFrom(Zero, gs, RSum(Weights(gs))))

calculateGenreEntropy(gs) ==
    IF Len(gs) = 0 THEN Zero ELSE EntropyFrom(Zero, gs, RSum(Weights(gs)))

isMainstreamGenre(genre) ==
    LET normalizedGenre == toLowerCase(Chars(genre))
    IN  \E mg \in MAINSTREAM_GENRES : includes(normalizedGenre, Chars(mg))

calculateMainstreamPercentage(gs) ==
    IF Len(gs) = 0 THEN Zero
    ELSE LET totalWeight == RSum(Weights(gs))
             mainstreamWeight == RSum(Weights(SelectSeq(gs, LAMBDA g : isMainstreamGenre(g.name))))
         IN  RDiv(mainstreamWeight, totalWeight)

Popularities(artists) == [i \in 1..Len(artists) |-> <<artists[i].popularity, 1>>]

\* The score with a mean popularity of 0 for an empty artist list
calculateHipsterScoreNoDefault(artists, mainstreamPercentage) ==
    LET avgPopularity == IF Len(artists) > 0
                         THEN RDiv(RSum(Popularities(artists)), <<Len(artists), 1>>)
                         ELSE Zero
        popularityComponent == RSub(One, RDiv(avgPopularity, <<100, 1>>))
        mainstreamComponent == RSub(One, mainstreamPercentage)
    IN  RAdd(RMul(popularityComponent, <<6, 10>>), RMul(mainstreamComponent, <<4, 10>>))

calculateHipsterScore(artists, mainstreamPercentage) ==
    LET avgPopularity == IF Len(artists) > 0
                         THEN RDiv(RSum(Popularities(artists)), <<Len(artists), 1>>)
                         ELSE <<50, 1>>
        popularityComponent == RSub(One, RDiv(avgPopularity, <<100, 1>>))
        mainstreamComponent == RSub(One, mainstreamPercentage)
    IN  RAdd(RMul(popularityComponent, <<6, 10>>), RMul(mainstreamComponent, <<4, 10>>))

\* t.artists[0]?.id
PrimaryArtistId(t) == IF Len(t.artists) > 0 THEN t.artists[1].id ELSE "undefined"

calculateArtistDiversity(tracks) ==
    IF Len(tracks) = 0 THEN Zero
    ELSE LET uniqueArtists == Cardinality({PrimaryArtistId(tracks[i]) : i \in 1..Len(tracks)})
         IN  Rat(uniqueArtists, Len(tracks))

TopGenreCount == 10

\* The weight of a 1-based rank used on the 0-based index
PositionWeightOffByOne(index) == Rat(1, index + 2)

\* Weight by position (higher position = more weight)
PositionWeight(index) == Rat(1, index + 1)

RECURSIVE AddGenres(_, _, _)
AddGenres(genreCounts, tags, positionWeight) ==
    IF tags = <<>> THEN genreCounts
    ELSE LET genre == Head(tags)
             old == IF MapHas(genreCounts, genre) THEN MapGet(genreCounts, genre) ELSE Zero
         IN  AddGenres(MapSet(genreCounts, genre, RAdd(old, positionWeight)),
                       Tail(tags), positionWeight)

RECURSIVE CountGenres(_, _, _)
CountGenres(genreCounts, artists, index) ==
    IF index >= Len(artists) THEN genreCounts
    ELSE CountGenres(AddGenres(genreCounts, artists[index + 1].genres, PositionWeight(index)),
                     artists, index + 1)

aggregateGenres(artists) ==
    LET genreCounts == CountGenres(<<>>, artists, 0)
        totalWeight == RSum(MapValues(genreCounts))
        entries == [i \in 1..Len(genreCounts) |->
                       [name |-> genreCounts[i][1],
                        weight |-> genreCounts[i][2],
                        percentage |-> RDiv(genreCounts[i][2], totalWeight)]]
    IN  Slice(SortByWeightDesc(entries), TopGenreCount)

\* The confrontation without its claimedGenres.length > 0 test
generateIdentityConfrontationUnguarded(profile) ==
    LET claimedSet == {toLowerCase(Chars(profile.claimedGenres[i])) :
                          i \in 1..Len(profile.claimedGenres)}
        top3 == Slice(profile.actualTopGenres, 3)
        actualSet == {toLowerCase(Chars(top3[i].name)) : i \in 1..Len(top3)}
        hasMismatch == ~ \E c \in claimedSet :
                            \E a \in actualSet : includes(a, c) \/ includes(c, a)
    IN  IF hasMismatch THEN "mismatch"
        ELSE IF RGt(profile.mainstreamPercentage, <<6, 10>>) THEN "mainstream"
        ELSE IF RGt(profile.hipsterScore, <<7, 10>>) THEN "hipster"
        ELSE IF RGt(profile.artistDiversity, <<1, 2>>) THEN "diverse"
        ELSE IF RLt(profile.artistDiversity, <<2, 10>>) THEN "loyal"
        ELSE "default"

\* Each returned sentence is named by the branch that builds it
generateIdentityConfrontation(profile) ==
    LET claimedSet == {toLowerCase(Chars(profile.claimedGenres[i])) :
                          i \in 1..Len(profile.claimedGenres)}
        top3 == Slice(profile.actualTopGenres, 3)
        actualSet == {toLowerCase(Chars(top3[i].name)) : i \in 1..Len(top3)}
        hasMismatch == ~ \E c \in claimedSet :
                            \E a \in actualSet : includes(a, c) \/ includes(c, a)
    IN  IF hasMismatch /\ Len(profile.claimedGenres) > 0 THEN "mismatch"
        ELSE IF RGt(profile.mainstreamPercentage, <<6, 10>>) THEN "mainstream"
        ELSE IF RGt(profile.hipsterScore, <<7, 10>>) THEN "hipster"
        ELSE IF RGt(profile.artistDiversity, <<1, 2>>) THEN "diverse"
        ELSE IF RLt(profile.artistDiversity, <<2, 10>>) THEN "loyal"
        ELSE "default"

calculateIdentityProfile(artists, tracks, claimed) ==
    LET actualTopGenres == aggregateGenres(artists)
        mainstreamPercentage == calculateMainstreamPercentage(actualTopGenres)
    IN  [claimedGenres |-> claimed,
         actualTopGenres |-> actualTopGenres,
         mainstreamPercentage |-> mainstreamPercentage,
         hipsterScore |-> calculateHipsterScore(artists, mainstreamPercentage),
         topArtists |-> artists,
         artistDiversity |-> calculateArtistDiversity(tracks)]

----------------------------------------------------------------------------
(* transformer.ts: genre aggregation and the mainstream share of a window *)

MAINSTREAM_KEYWORDS ==
    {"pop", "dance pop", "hip hop", "rap", "rock", "r&b", "country", "edm", "house"}

ProxyGenreCount == 10

aggregateGenresFromArtists(artists) ==
    LET counts == CountGenres(<<>>, artists, 0)
        total == RSum(MapValues(counts))
        entries == [i \in 1..Len(counts) |->
                       [name |-> counts[i][1],
                        weight |-> counts[i][2],
                        percentage |-> IF RGt(total, Zero)
                                       THEN RDiv(counts[i][2], total) ELSE Zero]]
    IN  Slice(SortByWeightDesc(entries), ProxyGenreCount)

calcMainstreamPct(gs) ==
    LET total == RSum(Weights(gs))
    IN  IF total = Zero THEN Zero
        ELSE LET mw == RSum(Weights(SelectSeq(gs, LAMBDA g :
                            \E k \in MAINSTREAM_KEYWORDS :
                                includes(toLowerCase(Chars(g.name)), Chars(k)))))
             IN  RDiv(mw, total)

----------------------------------------------------------------------------
(* transformer.ts: the quarterly proxy *)

\* Map<string, SpotifyAudioFeatures>: a function on the ids that have a sample
HasFeatures(featuresMap, id) == id \in DOMAIN featuresMap

\* tracks.map(t => audioFeatures.get(t.id)).filter(f => !!f)
MatchedFeatures(ids, featuresMap) ==
    LET present == SelectSeq(ids, LAMBDA id : HasFeatures(featuresMap, id))
    IN  [i \in 1..Len(present) |-> featuresMap[present[i]]]

TrackIds(tracks) == [i \in 1..Len(tracks) |-> tracks[i].id]
Valences(feats) == [i \in 1..Len(feats) |-> feats[i].valence]
Energies(feats) == [i \in 1..Len(feats) |-> feats[i].energy]

\* x || 0.5
OrHalf(x) == IF x = Zero THEN <<1, 2>> ELSE x

RECURSIVE CollectArtists(_, _)
CollectArtists(artistMap, artists) ==
    IF artists = <<>> THEN artistMap
    ELSE CollectArtists(MapSet(artistMap, Head(artists).id, Head(artists)), Tail(artists))

ExemplarCount == 5

makeQuarter(tracks, period, featuresMap) ==
    LET artistMap == CollectArtists(<<>>, Flatten([i \in 1..Len(tracks) |-> tracks[i].artists]))
        uniqueArtists == MapValues(artistMap)
        gs == aggregateGenresFromArtists(uniqueArtists)
        feats == MatchedFeatures(TrackIds(tracks), featuresMap)
    IN  [period |-> period,
         topGenres |-> gs,
         mainstreamPercentage |-> calcMainstreamPct(gs),
         averageValence |-> OrHalf(average(Valences(feats))),
         averageEnergy |-> OrHalf(average(Energies(feats))),
         topTracks |-> Slice(tracks, ExemplarCount)]

buildQuarterlyProxy(ranges, featuresMap) ==
    <<makeQuarter(ranges.long, "Full Year", featuresMap),
      makeQuarter(ranges.medium, "Mid-Year", featuresMap),
      makeQuarter(ranges.short, "Recent", featuresMap)>>

----------------------------------------------------------------------------
(* identity-profile.ts: phase shifts between quarters *)

\* The trigger with the mood tests ahead of the mainstream tests
identifyShiftTriggerMoodFirst(before, after) ==
    LET valenceChange == RSub(after.averageValence, before.averageValence)
        energyChange == RSub(after.averageEnergy, before.averageEnergy)
        mainstreamChange == RSub(after.mainstreamPercentage, before.mainstreamPercentage)
    IN  IF RLt(valenceChange, <<-15, 100>>) /\ RLt(energyChange, <<-15, 100>>)
        THEN "emotional_shift"
        ELSE IF RGt(valenceChange, <<15, 100>>) /\ RGt(energyChange, <<15, 100>>)
             THEN "positive_change"
        ELSE IF RGt(mainstreamChange, <<2, 10>>) THEN "comfort_seeking"
        ELSE IF RLt(mainstreamChange, <<-2, 10>>) THEN "exploration"
        ELSE "natural_evolution"

identifyShiftTrigger(before, after) ==
    LET valenceChange == RSub(after.averageValence, before.averageValence)
        energyChange == RSub(after.averageEnergy, before.averageEnergy)
        mainstreamChange == RSub(after.mainstreamPercentage, before.mainstreamPercentage)
    IN  IF RGt(mainstreamChange, <<2, 10>>) THEN "comfort_seeking"
        ELSE IF RLt(mainstreamChange, <<-2, 10>>) THEN "exploration"
        ELSE IF RLt(valenceChange, <<-15, 100>>) /\ RLt(energyChange, <<-15, 100>>)
             THEN "emotional_shift"
        ELSE IF RGt(valenceChange, <<15, 100>>) /\ RGt(energyChange, <<15, 100>>)
             THEN "positive_change"
        ELSE "natural_evolution"

\* topGenres[0]?.name
TopName(gs) == IF Len(gs) > 0 THEN gs[1].name ELSE "undefined"

\* topGenres[0]?.name || 'unknown'
TopNameOrUnknown(gs) == IF Len(gs) > 0 /\ gs[1].name # "" THEN gs[1].name ELSE "unknown"

\* The reading with the mood test ahead of the entropy tests
interpretShiftMoodFirst(before, after) ==
    LET entropyBefore == calculateGenreEntropy(before.topGenres)
        entropyAfter == calculateGenreEntropy(after.topGenres)
    IN  IF /\ RLt(after.averageValence, RSub(before.averageValence, <<1, 10>>))
           /\ RLt(after.averageEnergy, RSub(before.averageEnergy, <<1, 10>>))
        THEN "emotional_processing"
        ELSE IF /\ RLt(entropyAfter, entropyBefore)
                /\ RGt(after.mainstreamPercentage, RAdd(before.mainstreamPercentage, <<1, 10>>))
        THEN "retreat_to_comfort"
        ELSE IF /\ RGt(entropyAfter, RAdd(entropyBefore, <<3, 10>>))
                /\ TopName(after.topGenres) # TopName(before.topGenres)
        THEN "exploratory_escape"
        ELSE "genuine_evolution"

interpretShift(before, after) ==
    LET entropyBefore == calculateGenreEntropy(before.topGenres)
        entropyAfter == calculateGenreEntropy(after.topGenres)
    IN  IF /\ RLt(entropyAfter, entropyBefore)
           /\ RGt(after.mainstreamPercentage, RAdd(before.mainstreamPercentage, <<1, 10>>))
        THEN "retreat_to_comfort"
        ELSE IF /\ RGt(entropyAfter, RAdd(entropyBefore, <<3, 10>>))
                /\ TopName(after.topGenres) # TopName(before.topGenres)
        THEN "exploratory_escape"
        ELSE IF /\ RLt(after.averageValence, RSub(before.averageValence, <<1, 10>>))
                /\ RLt(after.averageEnergy, RSub(before.averageEnergy, <<1, 10>>))
        THEN "emotional_processing"
        ELSE "genuine_evolution"

\* Detect significant shift (> 0.5 entropy change or genre change)
isSignificantShiftInclusive(entropyChange, topGenreBefore, topGenreAfter) ==
    ~RLt(entropyChange, <<1, 2>>) \/ topGenreBefore # topGenreAfter
isSignificantShift(entropyChange, topGenreBefore, topGenreAfter) ==
    RGt(entropyChange, <<1, 2>>) \/ topGenreBefore # topGenreAfter

RECURSIVE ShiftsFrom(_, _, _)
ShiftsFrom(shifts, quarterlyData, i) ==
    IF i >= Len(quarterlyData) THEN shifts
    ELSE LET current == quarterlyData[i + 1]
             previous == quarterlyData[i]
             entropyBefore == calculateGenreEntropy(previous.topGenres)
             entropyAfter == calculateGenreEntropy(current.topGenres)
             entropyChange == RAbs(RSub(entropyAfter, entropyBefore))
             topGenreBefore == TopNameOrUnknown(previous.topGenres)
             topGenreAfter == TopNameOrUnknown(current.topGenres)
         IN  ShiftsFrom(IF isSignificantShift(entropyChange, topGenreBefore, topGenreAfter)
                        THEN Append(shifts,
                                 [quarter |-> current.period,
                                  beforeEntropy |-> entropyBefore,
                                  afterEntropy |-> entropyAfter,
                                  topGenreBefore |-> topGenreBefore,
                                  topGenreAfter |-> topGenreAfter,
                                  trigger |-> identifyShiftTrigger(previous, current),
                                  psychologicalReading |-> interpretShift(previous, current)])
                        ELSE shifts,
                        quarterlyData, i + 1)

\* the loop runs i = 1 .. length - 1 over 0-based indices
detectPhaseShifts(quarterlyData) == ShiftsFrom(<<>>, quarterlyData, 1)

\* The drift with the entropy changes averaged over the windows, not the pairs
calculateIdentityDriftPerWindow(quarterlyData) ==
    LET shifts == detectPhaseShifts(quarterlyData)
        entropyValues == [i \in 1..Len(quarterlyData) |->
                             calculateGenreEntropy(quarterlyData[i].topGenres)]
        entropyVariance ==
            IF Len(entropyValues) > 1
            THEN RDiv(RSum([i \in 1..(Len(entropyValues) - 1) |->
                               RAbs(RSub(entropyValues[i + 1], entropyValues[i]))]),
                      <<Len(entropyValues), 1>>)
            ELSE Zero
    IN  [shifts |-> shifts,
         overallStability |-> RSub(One, RMin(entropyVariance, One)),
         narrative |-> IF Len(shifts) = 0 THEN "consistent"
                       ELSE IF Len(shifts) = 1 THEN shifts[1].psychologicalReading
                       ELSE "phases"]

calculateIdentityDrift(quarterlyData) ==
    LET shifts == detectPhaseShifts(quarterlyData)
        entropyValues == [i \in 1..Len(quarterlyData) |->
                             calculateGenreEntropy(quarterlyData[i].topGenres)]
        entropyVariance ==
            IF Len(entropyValues) > 1
            THEN RDiv(RSum([i \in 1..(Len(entropyValues) - 1) |->
                               RAbs(RSub(entropyValues[i + 1], entropyValues[i]))]),
                      <<Len(entropyValues) - 1, 1>>)
            ELSE Zero
    IN  [shifts |-> shifts,
         overallStability |-> RSub(One, RMin(entropyVariance, One)),
         narrative |-> IF Len(shifts) = 0 THEN "consistent"
                       ELSE IF Len(shifts) = 1 THEN shifts[1].psychologicalReading
                       ELSE "phases"]

----------------------------------------------------------------------------
(* Numbers with square roots.  A standard deviation is the root of a       *)
(* rational, so the numbers computed from one are kept exactly as          *)
(*     q + c1 * sqrt(r1) + c2 * sqrt(r2) + ...                             *)
(* [q |-> q, roots |-> << <<c1, r1>>, <<c2, r2>> ... >>], every ri a       *)
(* rational that is no perfect square.                                     *)

RECURSIVE ISqrtFrom(_, _)
ISqrtFrom(n, k) == IF (k + 1) * (k + 1) > n THEN k ELSE ISqrtFrom(n, k + 1)
ISqrt(n) == ISqrtFrom(n, 0)
IsSquare(n) == ISqrt(n) * ISqrt(n) = n

Real(q) == [q |-> q, roots |-> <<>>]

\* Math.sqrt of a rational v >= 0
Sqrt(v) ==
    IF IsSquare(v[1]) /\ IsSquare(v[2]) THEN Real(Rat(ISqrt(v[1]), ISqrt(v[2])))
    ELSE [q |-> Zero, roots |-> <<<<One, v>>>>]

RealAdd(x, y) == [q |-> RAdd(x.q, y.q), roots |-> x.roots \o y.roots]
RealScale(x, c) ==
    IF c = Zero THEN Real(Zero)
    ELSE [q |-> RMul(x.q, c),
          roots |-> [i \in 1..Len(x.roots) |-> <<RMul(c, x.roots[i][1]), x.roots[i][2]>>]]

RSquare(a) == RMul(a, a)

\* c * sqrt(r) > s, for c > 0
RootGt(c, r, s) == RLt(s, Zero) \/ RGt(RMul(RSquare(c), r), RSquare(s))

\* x > t for a rational t; x has at most two roots, with positive coefficients
RealGt(x, t) ==
    LET s == RSub(t, x.q)
    IN  IF Len(x.roots) = 0 THEN RLt(s, Zero)
        ELSE IF Len(x.roots) = 1 THEN RootGt(x.roots[1][1], x.roots[1][2], s)
        ELSE LET c1 == x.roots[1][1]
                 r1 == x.roots[1][2]
                 c2 == x.roots[2][1]
                 r2 == x.roots[2][2]
                 half == RMul(s, <<1, 2>>)
             IN  IF RootGt(c1, r1, s) \/ RootGt(c2, r2, s) THEN TRUE
                 ELSE IF ~RootGt(c1, r1, half) /\ ~RootGt(c2, r2, half) THEN FALSE
                 ELSE \* square both sides: 2 c1 c2 sqrt(r1 r2) > s^2 - c1^2 r1 - c2^2 r2
                      LET u == RSub(RSub(RSquare(s), RMul(RSquare(c1), r1)),
                                    RMul(RSquare(c2), r2))
                      IN  RootGt(RMul(<<2, 1>>, RMul(c1, c2)), RMul(r1, r2), u)

\* Math.min(x, t)
RealMin(x, t) == IF RealGt(x, t) THEN Real(t) ELSE x

RECURSIVE RealSum(_)
RealSum(xs) == IF xs = <<>> THEN Real(Zero) ELSE RealAdd(Head(xs), RealSum(Tail(xs)))

----------------------------------------------------------------------------
(* emotional-profile.ts *)

\* The deviation of a sample: the squared distances divided by n - 1
standardDeviationOfSample(values) ==
    IF Len(values) <= 1 THEN Real(Zero)
    ELSE LET mean == RDiv(RSum(values), <<Len(values), 1>>)
         IN  Sqrt(RDiv(RSum([i \in 1..Len(values) |-> RSquare(RSub(values[i], mean))]),
                       <<Len(values) - 1, 1>>))

standardDeviation(values) ==
    IF Len(values) = 0 THEN Real(Zero)
    ELSE LET mean == RDiv(RSum(values), <<Len(values), 1>>)
         IN  Sqrt(RDiv(RSum([i \in 1..Len(values) |-> RSquare(RSub(values[i], mean))]),
                       <<Len(values), 1>>))

\* The oscillation score with an index counted once however many tests it meets
detectEmotionalOscillationOncePerIndex(tracks) ==
    IF Len(tracks) < 3 THEN Zero
    ELSE LET hit1(i) == /\ RGt(tracks[i - 1].energy, <<7, 10>>)
                        /\ RLt(tracks[i].valence, <<4, 10>>)
                        /\ RGt(tracks[i + 1].energy, <<7, 10>>)
             hit2(i) == /\ RGt(tracks[i - 1].valence, <<7, 10>>)
                        /\ RLt(tracks[i].valence, <<3, 10>>)
                        /\ RGt(tracks[i + 1].valence, <<7, 10>>)
         IN  Rat(Cardinality({i \in 2..(Len(tracks) - 1) : hit1(i) \/ hit2(i)}), Len(tracks))

detectEmotionalOscillation(tracks) ==
    IF Len(tracks) < 3 THEN Zero
    ELSE LET hit1(i) == /\ RGt(tracks[i - 1].energy, <<7, 10>>)
                        /\ RLt(tracks[i].valence, <<4, 10>>)
                        /\ RGt(tracks[i + 1].energy, <<7, 10>>)
             hit2(i) == /\ RGt(tracks[i - 1].valence, <<7, 10>>)
                        /\ RLt(tracks[i].valence, <<3, 10>>)
                        /\ RGt(tracks[i + 1].valence, <<7, 10>>)
             oscillations == Cardinality({i \in 2..(Len(tracks) - 1) : hit1(i)})
                                + Cardinality({i \in 2..(Len(tracks) - 1) : hit2(i)})
         IN  Rat(oscillations, Len(tracks))

lowValenceThreshold == <<35, 100>>
minClusterSize == 3

\* The TimeRange pushed for the run held in currentCluster / currentTimestamps
ClusterOf(currentCluster, currentTimestamps) ==
    [start |-> currentTimestamps[1],
     end |-> currentTimestamps[Len(currentTimestamps)],
     valence |-> average(Valences(currentCluster)),
     repeatCount |-> Len(currentCluster)]

FlushedAnySize(clusters, currentCluster, currentTimestamps) ==
    IF Len(currentCluster) >= 1
    THEN Append(clusters, ClusterOf(currentCluster, currentTimestamps))
    ELSE clusters
Flushed(clusters, currentCluster, currentTimestamps) ==
    IF Len(currentCluster) >= minClusterSize
    THEN Append(clusters, ClusterOf(currentCluster, currentTimestamps))
    ELSE clusters

RECURSIVE ScanMelancholy(_, _, _, _, _, _)
ScanMelancholy(clusters, currentCluster, currentTimestamps, tracks, timestamps, i) ==
    IF i > Len(tracks) THEN Flushed(clusters, currentCluster, currentTimestamps)
    ELSE IF RLt(tracks[i].valence, lowValenceThreshold)
         THEN ScanMelancholy(clusters, Append(currentCluster, tracks[i]),
                             Append(currentTimestamps, timestamps[i]),
                             tracks, timestamps, i + 1)
         ELSE ScanMelancholy(Flushed(clusters, currentCluster, currentTimestamps),
                             <<>>, <<>>, tracks, timestamps, i + 1)

findMelancholyLoops(tracks, timestamps) ==
    ScanMelancholy(<<>>, <<>>, <<>>, tracks, timestamps, 1)

RECURSIVE CountRepeats(_, _)
CountRepeats(repeatCounts, trackIds) ==
    IF trackIds = <<>> THEN repeatCounts
    ELSE LET id == Head(trackIds)
             old == IF MapHas(repeatCounts, id) THEN MapGet(repeatCounts, id) ELSE 0
         IN  CountRepeats(MapSet(repeatCounts, id, old + 1), Tail(trackIds))

\* One step of a stable sort by (a, b) => b[1] - a[1] on [id, count] entries
InsertByCount(sorted, x) ==
    LET k == Cardinality({i \in 1..Len(sorted) : sorted[i][2] >= x[2]})
    IN  SubSeq(sorted, 1, k) \o <<x>> \o SubSeq(sorted, k + 1, Len(sorted))

RECURSIVE SortByCountFrom(_, _)
SortByCountFrom(sorted, rest) ==
    IF rest = <<>> THEN sorted
    ELSE SortByCountFrom(InsertByCount(sorted, Head(rest)), Tail(rest))

\* count > 3 && f && f.valence < 0.4
IsRepeatedLowValenceFromThree(entry, featuresMap) ==
    /\ entry[2] >= 3
    /\ HasFeatures(featuresMap, entry[1])
    /\ RLt(featuresMap[entry[1]].valence, <<4, 10>>)
IsRepeatedLowValence(entry, featuresMap) ==
    /\ entry[2] > 3
    /\ HasFeatures(featuresMap, entry[1])
    /\ RLt(featuresMap[entry[1]].valence, <<4, 10>>)

\* Array.from(featuresMap.values()); the order of the values does not change
\* the deviation computed from them
FeatureValues(featuresMap) ==
    LET RECURSIVE Listed(_)
        Listed(S) == IF S = {} THEN <<>>
                     ELSE LET id == CHOOSE x \in S : TRUE
                          IN  <<featuresMap[id]>> \o Listed(S \ {id})
    IN  Listed(DOMAIN featuresMap)

\* The signals carry their type, their severity and the numbers their
\* evidence strings print.
identifyCopingMechanisms(trackIds, featuresMap, melancholyClusters) ==
    LET repeatCounts == CountRepeats(<<>>, trackIds)
        repeatedLowValence ==
            SortByCountFrom(<<>>, SelectSeq(repeatCounts,
                                     LAMBDA e : IsRepeatedLowValence(e, featuresMap)))
        repeatLoop ==
            IF Len(repeatedLowValence) > 0
            THEN LET topId == repeatedLowValence[1][1]
                     topCount == repeatedLowValence[1][2]
                 IN  <<[type |-> "repeat_loop",
                        severity |-> RealMin(Real(Rat(topCount, 10)), One),
                        evidence |-> <<featuresMap[topId].valence, topCount>>]>>
            ELSE <<>>
        energyStd == standardDeviation(Energies(FeatureValues(featuresMap)))
        energyCrash ==
            IF RealGt(energyStd, <<25, 100>>)
            THEN <<[type |-> "energy_crash",
                    severity |-> RealMin(RealScale(energyStd, <<2, 1>>), One),
                    evidence |-> <<energyStd>>]>>
            ELSE <<>>
        nightSadness ==
            IF Len(melancholyClusters) > 0
            THEN LET total == RSum([i \in 1..Len(melancholyClusters) |->
                                       <<melancholyClusters[i].repeatCount, 1>>])
                 IN  <<[type |-> "night_sadness",
                        severity |-> RealMin(Real(RDiv(total, <<50, 1>>)), One),
                        evidence |-> [i \in 1..Len(melancholyClusters) |->
                                         <<melancholyClusters[i].repeatCount,
                                           melancholyClusters[i].valence>>]]>>
            ELSE <<>>
    IN  repeatLoop \o energyCrash \o nightSadness

inferPsychologicalStateHalf(valenceStd, oscillationScore, copingSignals) ==
    LET n == IF Len(copingSignals) > 1 THEN Len(copingSignals) ELSE 1
        severity == RealScale(RealSum([i \in 1..Len(copingSignals) |-> copingSignals[i].severity]),
                              Rat(1, n))
    IN  IF RealGt(severity, <<7, 10>>) THEN "intense_processing"
        ELSE IF RealGt(severity, <<5, 10>>) THEN "active_coping"
        ELSE IF RealGt(valenceStd, <<25, 100>>) THEN "emotional_exploration"
        ELSE IF RGt(oscillationScore, <<1, 10>>) THEN "emotional_oscillation"
        ELSE "emotional_stability"
inferPsychologicalState(valenceStd, oscillationScore, copingSignals) ==
    LET n == IF Len(copingSignals) > 1 THEN Len(copingSignals) ELSE 1
        severity == RealScale(RealSum([i \in 1..Len(copingSignals) |-> copingSignals[i].severity]),
                              Rat(1, n))
    IN  IF RealGt(severity, <<7, 10>>) THEN "intense_processing"
        ELSE IF RealGt(severity, <<4, 10>>) THEN "active_coping"
        ELSE IF RealGt(valenceStd, <<25, 100>>) THEN "emotional_exploration"
        ELSE IF RGt(oscillationScore, <<1, 10>>) THEN "emotional_oscillation"
        ELSE "emotional_stability"

\* The five descriptions, each named here by its opening words
getPsychologicalStateDescription(state) ==
    CASE state = "intense_processing" ->
             "Your listening patterns suggest you were processing significant emotional experiences."
      [] state = "active_coping" ->
             "Your music choices reveal active coping mechanisms."
      [] state = "emotional_exploration" ->
             "You explored a wide emotional range this year, from high-energy peaks to introspective valleys."
      [] state = "emotional_oscillation" ->
             "Your listening shows a pattern of emotional oscillation"
      [] OTHER ->
             "Your emotional listening patterns remained relatively consistent, suggesting a period of stability or contentment."

\* The date of an arc point read from the clock
ArcDateFromClock(timestamps, i) == now

\* timestamps[i] || new Date().toISOString()
ArcDate(timestamps, i) == IF i \in DOMAIN timestamps THEN timestamps[i] ELSE now

\* Called, as buildListeningProfile calls it, with all four arguments
calculateEmotionalProfile(tracks, timestamps, rawTrackIds, featuresMap) ==
    LET valences == Valences(tracks)
        energies == Energies(tracks)
        valenceStd == standardDeviation(valences)
        oscillationScore == detectEmotionalOscillation(tracks)
        melancholyClusters == findMelancholyLoops(tracks, timestamps)
        copingIndicators == identifyCopingMechanisms(rawTrackIds, featuresMap, melancholyClusters)
        psychologicalState == inferPsychologicalState(valenceStd, oscillationScore, copingIndicators)
    IN  [valenceVolatility |-> valenceStd,
         energyArc |-> [i \in 1..Len(tracks) |->
                           [date |-> ArcDate(timestamps, i),
                            valence |-> tracks[i].valence,
                            energy |-> tracks[i].energy,
                            tempo |-> tracks[i].tempo,
                            isCopingCluster |->
                                \E k \in 1..Len(melancholyClusters) :
                                    /\ timestamps[i] >= melancholyClusters[k].start
                                    /\ timestamps[i] <= melancholyClusters[k].end]],
         melancholyClusters |-> melancholyClusters,
         copingIndicators |-> copingIndicators,
         stabilityScore |->
             RealAdd(Real(One),
                     RealScale(RealMin(RealScale(RealAdd(valenceStd, standardDeviation(energies)),
                                                 <<1, 2>>), One),
                               <<-1, 1>>)),
         oscillationPattern |-> oscillationScore,
         psychologicalState |-> getPsychologicalStateDescription(psychologicalState),
         averageValence |-> average(valences),
         averageEnergy |-> average(energies)]

----------------------------------------------------------------------------
(* nocturnal-analysis.ts; its audioFeatures parameter is featuresMap here.  *)
(* played_at is the hour of the play, counted in local time from the       *)
(* midnight of some day 0: its hour of the day is played_at % 24, its      *)
(* calendar date is played_at \div 24.                                     *)

\* new Date(timestamp).getHours()
getHourFromTimestamp(timestamp) == timestamp % 24

\* new Date(timestamp).toDateString()
toDateString(timestamp) == timestamp \div 24

\* The night taken to last until 6 AM
isNightTimeUntilSix(timestamp) ==
    LET hour == getHourFromTimestamp(timestamp)
    IN  hour >= 0 /\ hour <= 6

\* Check if timestamp is during night hours (0-5 AM)
isNightTime(timestamp) ==
    LET hour == getHourFromTimestamp(timestamp)
    IN  hour >= 0 /\ hour <= 5

\* The forEach body with a new sequence starting at count 1
RecordPlayFromOne(trackSequences, play, featuresMap) ==
    LET trackId == play.track.id
        sequence == IF MapHas(trackSequences, trackId) THEN MapGet(trackSequences, trackId)
                    ELSE [count |-> 1, timestamps |-> <<>>, valences |-> <<>>]
    IN  MapSet(trackSequences, trackId,
               [count |-> sequence.count + 1,
                timestamps |-> Append(sequence.timestamps, play.played_at),
                valences |-> IF HasFeatures(featuresMap, trackId)
                             THEN Append(sequence.valences, featuresMap[trackId].valence)
                             ELSE sequence.valences])

\* playHistory.forEach body: count the play, keep its timestamp and, when the
\* store has a sample, its valence
RecordPlay(trackSequences, play, featuresMap) ==
    LET trackId == play.track.id
        sequence == IF MapHas(trackSequences, trackId) THEN MapGet(trackSequences, trackId)
                    ELSE [count |-> 0, timestamps |-> <<>>, valences |-> <<>>]
    IN  MapSet(trackSequences, trackId,
               [count |-> sequence.count + 1,
                timestamps |-> Append(sequence.timestamps, play.played_at),
                valences |-> IF HasFeatures(featuresMap, trackId)
                             THEN Append(sequence.valences, featuresMap[trackId].valence)
                             ELSE sequence.valences])

RECURSIVE GroupPlays(_, _, _)
GroupPlays(trackSequences, playHistory, featuresMap) ==
    IF playHistory = <<>> THEN trackSequences
    ELSE GroupPlays(RecordPlay(trackSequences, Head(playHistory), featuresMap),
                    Tail(playHistory), featuresMap)

\* data.count > 2
IsLoopMoreThanTwice(data) == data.count > 2
\* data.count >= 2
IsLoop(data) == data.count >= 2

\* trackPlay?.track.name || 'Unknown Track'
TrackNameOf(playHistory, trackId) ==
    LET found == SelectSeq(playHistory, LAMBDA p : p.track.id = trackId)
    IN  IF Len(found) > 0 /\ found[1].track.name # "" THEN found[1].track.name
        ELSE "Unknown Track"

LoopOf(entry, playHistory) ==
    LET trackId == entry[1]
        data == entry[2]
    IN  [trackId |-> trackId,
         trackName |-> TrackNameOf(playHistory, trackId),
         count |-> data.count,
         avgValence |-> IF Len(data.valences) > 0
                        THEN RDiv(RSum(data.valences), <<Len(data.valences), 1>>)
                        ELSE <<1, 2>>,
         timestamps |-> data.timestamps]

\* One step of a stable sort by (a, b) => b.count - a.count
InsertByLoopCount(sorted, x) ==
    LET k == Cardinality({i \in 1..Len(sorted) : sorted[i].count >= x.count})
    IN  SubSeq(sorted, 1, k) \o <<x>> \o SubSeq(sorted, k + 1, Len(sorted))

RECURSIVE SortLoopsFrom(_, _)
SortLoopsFrom(sorted, rest) ==
    IF rest = <<>> THEN sorted
    ELSE SortLoopsFrom(InsertByLoopCount(sorted, Head(rest)), Tail(rest))

detectRepeatLoops(playHistory, featuresMap) ==
    LET trackSequences == GroupPlays(<<>>, playHistory, featuresMap)
        kept == SelectSeq(trackSequences, LAMBDA e : IsLoop(e[2]))
        loops == [i \in 1..Len(kept) |-> LoopOf(kept[i], playHistory)]
    IN  SortLoopsFrom(<<>>, loops)

\* hour >= 0 && hour <= 5
IsLateNightFromMidnight(play) ==
    LET hour == getHourFromTimestamp(play.played_at)
    IN  hour >= 0 /\ hour <= 5
\* hour >= 2 && hour <= 5
IsLateNight(play) ==
    LET hour == getHourFromTimestamp(play.played_at)
    IN  hour >= 2 /\ hour <= 5

RECURSIVE CountByDate(_, _)
CountByDate(playsByDate, plays) ==
    IF plays = <<>> THEN playsByDate
    ELSE LET date == toDateString(Head(plays).played_at)
             old == IF MapHas(playsByDate, date) THEN MapGet(playsByDate, date) ELSE 0
         IN  CountByDate(MapSet(playsByDate, date, old + 1), Tail(plays))

detectInsomniaPatterns(playHistory) ==
    LET lateNightPlays == SelectSeq(playHistory, IsLateNight)
        playsByDate == CountByDate(<<>>, lateNightPlays)
        lateNightDays == Len(playsByDate)
        totalPlays == Len(lateNightPlays)
    IN  [hasInsomniaPattern |-> lateNightDays >= 3,
         lateNightDays |-> lateNightDays,
         averageSessionLength |-> IF lateNightDays > 0 THEN Rat(totalPlays, lateNightDays)
                                  ELSE Zero]

\* The sentences generateNightConfrontation returns, each up to the end of
\* its part that carries the interpolated value or of its first clause
SadLoopSentence(trackName) ==
    "You don't listen to sad music at 2am randomly. You loop it. \"" \o trackName
        \o "\" wasn't background noise"
ConfessionalSentence == "The hours between midnight and 5am tell a different story."
InsomniaSentence(lateNightDays) ==
    "On " \o ToString(lateNightDays) \o " different nights this period, you were awake"
NightCreatureSentence == "You're a creature of the night"
NightSoundtrackSentence == "The night has its own soundtrack in your world."
DisciplinedSentence == "You're disciplined about your sleep"

\* The confrontation with the insomnia test ahead of the low-valence test
generateNightConfrontationInsomniaFirst(nightRatio, nightValence, loops, insomniaPattern) ==
    IF insomniaPattern.hasInsomniaPattern
    THEN InsomniaSentence(insomniaPattern.lateNightDays)
    ELSE IF RGt(nightRatio, <<2, 10>>) /\ RLt(nightValence, <<35, 100>>)
    THEN LET sadLoops == SelectSeq(loops, LAMBDA l :
                             /\ RLt(l.avgValence, <<4, 10>>)
                             /\ \E i \in 1..Len(l.timestamps) : isNightTime(l.timestamps[i]))
         IN  IF Len(sadLoops) > 0 THEN SadLoopSentence(sadLoops[1].trackName)
             ELSE ConfessionalSentence
    ELSE IF RGt(nightRatio, <<25, 100>>) THEN NightCreatureSentence
    ELSE IF RGt(nightRatio, <<1, 10>>) THEN NightSoundtrackSentence
    ELSE DisciplinedSentence

generateNightConfrontation(nightRatio, nightValence, loops, insomniaPattern) ==
    IF RGt(nightRatio, <<2, 10>>) /\ RLt(nightValence, <<35, 100>>)
    THEN LET sadLoops == SelectSeq(loops, LAMBDA l :
                             /\ RLt(l.avgValence, <<4, 10>>)
                             /\ \E i \in 1..Len(l.timestamps) : isNightTime(l.timestamps[i]))
         IN  IF Len(sadLoops) > 0 THEN SadLoopSentence(sadLoops[1].trackName)
             ELSE ConfessionalSentence
    ELSE IF insomniaPattern.hasInsomniaPattern
    THEN InsomniaSentence(insomniaPattern.lateNightDays)
    ELSE IF RGt(nightRatio, <<25, 100>>) THEN NightCreatureSentence
    ELSE IF RGt(nightRatio, <<1, 10>>) THEN NightSoundtrackSentence
    ELSE DisciplinedSentence

\* The profile with the night share taken against the plays outside the night
analyzeNocturnalBehaviorAgainstDay(playHistory, featuresMap) ==
    LET nightPlays == SelectSeq(playHistory, LAMBDA p : isNightTime(p.played_at))
        nightRatio == IF Len(playHistory) > Len(nightPlays)
                      THEN Rat(Len(nightPlays), Len(playHistory) - Len(nightPlays))
                      ELSE Zero
        nightAudioFeatures == MatchedFeatures([i \in 1..Len(nightPlays) |-> nightPlays[i].track.id],
                                              featuresMap)
        nightValence == IF Len(nightAudioFeatures) > 0
                        THEN RDiv(RSum(Valences(nightAudioFeatures)), <<Len(nightAudioFeatures), 1>>)
                        ELSE <<1, 2>>
        allLoops == detectRepeatLoops(playHistory, featuresMap)
        nightLoops == SelectSeq(allLoops, LAMBDA loop :
                          \E i \in 1..Len(loop.timestamps) : isNightTime(loop.timestamps[i]))
        insomniaPattern == detectInsomniaPatterns(playHistory)
    IN  [nightOwlScore |-> nightRatio,
         nightRatio |-> nightRatio,
         nightValence |-> nightValence,
         averageNightValence |-> nightValence,
         sadnessLoops |-> SelectSeq(nightLoops, LAMBDA l : RLt(l.avgValence, <<4, 10>>)),
         loops |-> nightLoops,
         insomniaIndicators |-> insomniaPattern.hasInsomniaPattern,
         confrontation |-> generateNightConfrontation(nightRatio, nightValence, nightLoops,
                                                      insomniaPattern)]

analyzeNocturnalBehavior(playHistory, featuresMap) ==
    LET nightPlays == SelectSeq(playHistory, LAMBDA p : isNightTime(p.played_at))
        nightRatio == IF Len(playHistory) > 0 THEN Rat(Len(nightPlays), Len(playHistory))
                      ELSE Zero
        nightAudioFeatures == MatchedFeatures([i \in 1..Len(nightPlays) |-> nightPlays[i].track.id],
                                              featuresMap)
        nightValence == IF Len(nightAudioFeatures) > 0
                        THEN RDiv(RSum(Valences(nightAudioFeatures)), <<Len(nightAudioFeatures), 1>>)
                        ELSE <<1, 2>>
        allLoops == detectRepeatLoops(playHistory, featuresMap)
        nightLoops == SelectSeq(allLoops, LAMBDA loop :
                          \E i \in 1..Len(loop.timestamps) : isNightTime(loop.timestamps[i]))
        insomniaPattern == detectInsomniaPatterns(playHistory)
    IN  [nightOwlScore |-> nightRatio,
         nightRatio |-> nightRatio,
         nightValence |-> nightValence,
         averageNightValence |-> nightValence,
         sadnessLoops |-> SelectSeq(nightLoops, LAMBDA l : RLt(l.avgValence, <<4, 10>>)),
         loops |-> nightLoops,
         insomniaIndicators |-> insomniaPattern.hasInsomniaPattern,
         confrontation |-> generateNightConfrontation(nightRatio, nightValence, nightLoops,
                                                      insomniaPattern)]
----------------------------------------------------------------------------
(* service.ts: the SpotifyService, its localStorage keys and its calls to  *)
(* the token endpoint and the API. An await is a step boundary: a request  *)
(* and a token exchange are each a step that sends and a step that takes   *)
(* the response. Date.now() is the variable now.                           *)

\* null. Strings are sequences of characters; a test of the form !x or
\* a && b treats null and the empty string alike, and no token, expiry or
\* verifier here is the empty string.
NULL == <<>>

StorageKeys ==
    {"spotify_access_token", "spotify_refresh_token", "spotify_token_expiry",
     "spotify_code_verifier"}

EmptyStorage == [k \in StorageKeys |-> NULL]

\* localStorage.setItem, localStorage.removeItem
setItem(storage, key, value) == [storage EXCEPT ![key] = value]
removeItem(storage, key) == [storage EXCEPT ![key] = NULL]

DigitChars == <<"0", "1", "2", "3", "4", "5", "6", "7", "8", "9">>

\* Number.prototype.toString of a non-negative integer: its decimal digits
RECURSIVE NumberToString(_)
NumberToString(n) ==
    IF n < 10 THEN <<DigitChars[n + 1]>>
    ELSE Append(NumberToString(n \div 10), DigitChars[(n % 10) + 1])

DigitValue(c) == (CHOOSE i \in 1..10 : DigitChars[i] = c) - 1

\* parseInt(s, 10) of a string of decimal digits
RECURSIVE parseInt(_)
parseInt(s) ==
    IF Len(s) = 0 THEN 0
    ELSE 10 * parseInt(SubSeq(s, 1, Len(s) - 1)) + DigitValue(s[Len(s)])

\* What a call did: what it found in localStorage, and what it returned or
\* threw
Outcome(op, returned, threw) ==
    [op |-> op, returned |-> returned, threw |-> threw, found |-> localStorage]

\* new SpotifyService(clientId, redirectUri)
Constructed ==
    /\ accessToken = NULL
    /\ tokenExpiry = 0
    /\ inFlight = <<>>
    /\ exchange = 0
    /\ outcome = [op |-> "constructor", returned |-> "none", threw |-> "none",
                  found |-> EmptyStorage]
    /\ calls = 0

\* clearStorage that forgets the token in memory but leaves the stored keys
clearStorageInMemory(storage) == storage

\* clearStorage: the four removeItem calls
clearStorage(storage) ==
    removeItem(removeItem(removeItem(removeItem(storage,
        "spotify_access_token"), "spotify_refresh_token"), "spotify_token_expiry"),
        "spotify_code_verifier")

\* The expiry test with the expiry instant still counted as valid
isExpiredAfter(time, expiry) == time > expiry

\* Date.now() >= this.tokenExpiry
isExpired(time, expiry) == time >= expiry

\* storeTokens: the three setItem calls
storedTokens(storage, tokens, expiry) ==
    setItem(setItem(setItem(storage,
        "spotify_access_token", tokens.access_token),
        "spotify_refresh_token", tokens.refresh_token),
        "spotify_token_expiry", NumberToString(expiry))
----------------------------------------------------------------------------
(* transformer.ts: temporal profile, comfort zone, buildListeningProfile   *)

\* transformer.ts standardDeviation
transformerStandardDeviation(values) ==
    IF Len(values) = 0 THEN Real(Zero)
    ELSE LET mean == average(values)
         IN  Sqrt(average([i \in 1..Len(values) |-> RSquare(RSub(values[i], mean))]))

\* The loop of transformer.ts calculateGenreEntropy
RECURSIVE TransformerEntropyFrom(_, _, _)
TransformerEntropyFrom(entropy, gs, total) ==
    IF gs = <<>> THEN entropy
    ELSE LET p == RDiv(Head(gs).weight, total)
         IN  TransformerEntropyFrom(IF RGt(p, Zero) THEN RSub(entropy, RMul(p, Log2(p)))
                                    ELSE entropy,
                                    Tail(gs), total)

\* transformer.ts calculateGenreEntropy
transformerGenreEntropy(gs) ==
    IF Len(gs) = 0 THEN Zero ELSE TransformerEntropyFrom(Zero, gs, RSum(Weights(gs)))

\* hourCounts: plays per hour of the day, in order of first occurrence
RECURSIVE CountByHour(_, _)
CountByHour(hourCounts, plays) ==
    IF plays = <<>> THEN hourCounts
    ELSE LET h == getHourFromTimestamp(Head(plays).played_at)
             old == IF MapHas(hourCounts, h) THEN MapGet(hourCounts, h) ELSE 0
         IN  CountByHour(MapSet(hourCounts, h, old + 1), Tail(plays))

\* hourCounts.forEach: the first hour with the largest count, 0 for none
RECURSIVE PeakFrom(_, _, _)
PeakFrom(peakHour, peakCount, hourCounts) ==
    IF hourCounts = <<>> THEN peakHour
    ELSE IF Head(hourCounts)[2] > peakCount
         THEN PeakFrom(Head(hourCounts)[1], Head(hourCounts)[2], Tail(hourCounts))
         ELSE PeakFrom(peakHour, peakCount, Tail(hourCounts))

RECURSIVE TotalMs(_)
TotalMs(plays) ==
    IF plays = <<>> THEN 0 ELSE Head(plays).track.duration_ms + TotalMs(Tail(plays))

\* Math.round(ms / 60000) for ms >= 0
RoundedMinutes(ms) == (2 * ms + 60000) \div 120000

buildTemporalProfile(plays, ranges, featuresMap) ==
    [totalListeningTime |-> RoundedMinutes(TotalMs(plays)),
     activeDays |-> Cardinality({toDateString(plays[i].played_at) : i \in 1..Len(plays)}),
     peakListeningHour |-> PeakFrom(0, 0, CountByHour(<<>>, plays)),
     quarterlyBreakdown |-> buildQuarterlyProxy(ranges, featuresMap)]

Tempos(feats) == [i \in 1..Len(feats) |-> feats[i].tempo]

\* Math.min(...bpms), Math.max(...bpms) of a non-empty list
MinOf(xs) == CHOOSE x \in {xs[i] : i \in 1..Len(xs)} : \A i \in 1..Len(xs) : x <= xs[i]
MaxOf(xs) == CHOOSE x \in {xs[i] : i \in 1..Len(xs)} : \A i \in 1..Len(xs) : x >= xs[i]

buildComfortZoneMetrics(tracks, featuresMap, genreEntropy, artistDiversity) ==
    LET feats == MatchedFeatures(TrackIds(tracks), featuresMap)
        bpms == Tempos(feats)
    IN  [bpmVariance |-> transformerStandardDeviation([i \in 1..Len(bpms) |-> <<bpms[i], 1>>]),
         genreEntropy |-> genreEntropy,
         artistLoyalty |-> RSub(One, artistDiversity),
         bpmRange |-> [min |-> IF Len(bpms) > 0 THEN MinOf(bpms) ELSE 60,
                       max |-> IF Len(bpms) > 0 THEN MaxOf(bpms) ELSE 180]]

\* recentlyPlayed.map(p => audioFeatures.get(p.track.id)).filter(f => !!f)
RecentFeats(plays, featuresMap) ==
    MatchedFeatures([i \in 1..Len(plays) |-> plays[i].track.id], featuresMap)
\* recentlyPlayed.map(p => p.played_at)
Timestamps(plays) == [i \in 1..Len(plays) |-> plays[i].played_at]
\* recentlyPlayed.map(p => p.track.id)
RawTrackIds(plays) == [i \in 1..Len(plays) |-> plays[i].track.id]

buildListeningProfile(data, rangedTracks) ==
    LET identityProfile == calculateIdentityProfile(data.topArtists, data.topTracks, <<>>)
        emotionalProfile ==
            calculateEmotionalProfile(RecentFeats(data.recentlyPlayed, data.audioFeatures),
                                      Timestamps(data.recentlyPlayed),
                                      RawTrackIds(data.recentlyPlayed),
                                      data.audioFeatures)
        nocturnalProfile == analyzeNocturnalBehavior(data.recentlyPlayed, data.audioFeatures)
        temporal == buildTemporalProfile(data.recentlyPlayed, rangedTracks, data.audioFeatures)
        comfortZone ==
            buildComfortZoneMetrics(data.topTracks, data.audioFeatures,
                                    transformerGenreEntropy(identityProfile.actualTopGenres),
                                    identityProfile.artistDiversity)
    IN  [identity |-> identityProfile,
         emotional |-> emotionalProfile,
         behavioral |-> [circadianPatterns |-> nocturnalProfile,
                         obsessionLoops |-> <<>>,
                         phaseShifts |-> <<>>,
                         comfortZoneMetrics |-> comfortZone],
         temporal |-> temporal]

----------------------------------------------------------------------------
(* Specifications.  Every specification draws the inputs of the operations *)
(* it applies in its initial state; an operation runs once on them.        *)

MaxArtists == 3
MaxIdentityArtists == 2
MaxTracks == 6

NotRun == <<>>

NoOutputs ==
    /\ done = {}
    /\ genres = NotRun
    /\ proxyGenres = NotRun
    /\ identity = NotRun
    /\ confrontation = NotRun
    /\ emotional = NotRun
    /\ repeatLoops = NotRun
    /\ insomnia = NotRun
    /\ nocturnal = NotRun
    /\ quarterlyBreakdown = NotRun
    /\ drift = NotRun
    /\ listeningProfile = NotRun
    /\ rerun = NotRun
    /\ zoneEntropy = NotRun
    /\ windowEntropy = NotRun

\* The service constructed and not used, the clock at 0
Idle ==
    /\ now = 0
    /\ localStorage = EmptyStorage
    /\ Constructed

EmptyRanges == [long |-> <<>>, medium |-> <<>>, short |-> <<>>]
NoFeatures == <<>>

(* Genre aggregation: both aggregators on every ranking of the pool *)

GenrePool == {"1", "3", "5", "6", "7", "8", "9", "10"}

InitGenre ==
    /\ NoOutputs
    /\ Idle
    /\ topArtists \in RankedArtists(GenrePool, MaxArtists)
    /\ topTracks = <<>>
    /\ claimedGenres = <<>>
    /\ recentlyPlayed = <<>>
    /\ audioFeatures = NoFeatures
    /\ byRange = EmptyRanges

AggregateGenres ==
    /\ "aggregateGenres" \notin done
    /\ genres' = aggregateGenres(topArtists)
    /\ done' = done \cup {"aggregateGenres"}
    /\ UNCHANGED <<inputs, built, now, service, night, proxyGenres, identity,
                   confrontation, emotional, quarterlyBreakdown, drift>>

AggregateGenresFromArtists ==
    /\ "aggregateGenresFromArtists" \notin done
    /\ proxyGenres' = aggregateGenresFromArtists(topArtists)
    /\ done' = done \cup {"aggregateGenresFromArtists"}
    /\ UNCHANGED <<inputs, built, now, service, night, genres, identity, confrontation,
                   emotional, quarterlyBreakdown, drift>>

NextGenre == AggregateGenres \/ AggregateGenresFromArtists

SpecGenre == InitGenre /\ [][NextGenre]_vars

(* Identity: calculateIdentityProfile, then generateIdentityConfrontation *)

IdentityPool == {"1", "3", "5", "6", "7", "9", "12", "13"}

\* The first n tracks of a ranked list whose i-th track is by artists[(i-1) % k + 1]
RankedTracks(artistIds, n) ==
    [i \in 1..n |-> Track("t" \o ToString(i),
                          IF artistIds = <<>> THEN <<>>
                          ELSE <<artistIds[((i - 1) % Len(artistIds)) + 1]>>, 200000)]

TrackRotations == {<<>>, <<"1">>, <<"1", "3">>, <<"1", "3", "5">>}

ClaimedOptions ==
    {<<>>, <<"pop">>, <<"Jazz">>, <<"country pop">>, <<"indie", "techno">>}

InitIdentity ==
    /\ NoOutputs
    /\ Idle
    /\ topArtists \in RankedArtists(IdentityPool, MaxIdentityArtists)
    /\ topTracks \in {RankedTracks(r, n) : r \in TrackRotations, n \in 0..MaxTracks}
    /\ claimedGenres \in ClaimedOptions
    /\ recentlyPlayed = <<>>
    /\ audioFeatures = NoFeatures
    /\ byRange = EmptyRanges

CalculateIdentityProfile ==
    /\ "calculateIdentityProfile" \notin done
    /\ identity' = calculateIdentityProfile(topArtists, topTracks, claimedGenres)
    /\ done' = done \cup {"calculateIdentityProfile"}
    /\ UNCHANGED <<inputs, built, now, service, night, genres, proxyGenres, confrontation,
                   emotional, quarterlyBreakdown, drift>>

GenerateIdentityConfrontation ==
    /\ "calculateIdentityProfile" \in done
    /\ "generateIdentityConfrontation" \notin done
    /\ confrontation' = generateIdentityConfrontation(identity)
    /\ done' = done \cup {"generateIdentityConfrontation"}
    /\ UNCHANGED <<inputs, built, now, service, night, genres, proxyGenres, identity,
                   emotional, quarterlyBreakdown, drift>>

NextIdentity == CalculateIdentityProfile \/ GenerateIdentityConfrontation

SpecIdentity == InitIdentity /\ [][NextIdentity]_vars

(* Quarterly proxy: buildQuarterlyProxy on three ranked windows, then      *)
(* calculateIdentityDrift on its result.  The windows are those whose      *)
(* genre shares are powers of two, on which Math.log2 is exact.            *)

WindowTrack(id) ==
    CASE id = "t2" -> Track("t2", <<"2">>, 178000)
      [] id = "t3" -> Track("t3", <<"3">>, 198000)
      [] id = "t6" -> Track("t6", <<"6">>, 240000)
      [] id = "t7" -> Track("t7", <<"7">>, 360000)
      [] id = "t8" -> Track("t8", <<"8">>, 210000)
      [] id = "t10" -> Track("t10", <<"10">>, 180000)
      [] id = "t11" -> Track("t11", <<"10", "8">>, 185000)
      [] id = "t12" -> Track("t12", <<"10">>, 190000)
      [] id = "t13" -> Track("t13", <<"7">>, 200000)

Features(id, valence, energy, tempo) ==
    [id |-> id, valence |-> Rat(valence, 100), energy |-> Rat(energy, 100), tempo |-> tempo]

WindowFeatures(id) ==
    CASE id = "t2" -> Features("t2", 56, 74, 170)
      [] id = "t3" -> Features("t3", 36, 45, 77)
      [] id = "t6" -> Features("t6", 30, 25, 90)
      [] id = "t7" -> Features("t7", 80, 90, 128)
      [] id = "t8" -> Features("t8", 0, 0, 60)
      [] id = "t10" -> Features("t10", 60, 70, 120)
      [] id = "t11" -> Features("t11", 40, 50, 100)
      [] id = "t12" -> Features("t12", 20, 30, 110)
      [] id = "t13" -> Features("t13", 45, 50, 125)

WindowTrackIds == {"t2", "t3", "t6", "t7", "t8", "t10", "t11", "t12", "t13"}

RankedWindows ==
    {[i \in DOMAIN w |-> WindowTrack(w[i])] :
        w \in {<<>>, <<"t6">>, <<"t7">>, <<"t2">>, <<"t8">>, <<"t3">>,
               <<"t10", "t8">>, <<"t11">>, <<"t10", "t12", "t8">>,
               <<"t2", "t3">>, <<"t7", "t2">>, <<"t12">>, <<"t13">>}}

WindowStores ==
    {[id \in S |-> WindowFeatures(id)] : S \in {{}, WindowTrackIds \ {"t11"}, WindowTrackIds}}

InitQuarterly ==
    /\ NoOutputs
    /\ Idle
    /\ topArtists = <<>>
    /\ topTracks = <<>>
    /\ claimedGenres = <<>>
    /\ recentlyPlayed = <<>>
    /\ audioFeatures \in WindowStores
    /\ byRange \in [long : RankedWindows, medium : RankedWindows, short : RankedWindows]

BuildQuarterlyProxy ==
    /\ "buildQuarterlyProxy" \notin done
    /\ quarterlyBreakdown' = buildQuarterlyProxy(byRange, audioFeatures)
    /\ done' = done \cup {"buildQuarterlyProxy"}
    /\ UNCHANGED <<inputs, built, now, service, night, genres, proxyGenres, identity,
                   confrontation, emotional, drift>>

CalculateIdentityDrift ==
    /\ "buildQuarterlyProxy" \in done
    /\ "calculateIdentityDrift" \notin done
    /\ drift' = calculateIdentityDrift(quarterlyBreakdown)
    /\ done' = done \cup {"calculateIdentityDrift"}
    /\ UNCHANGED <<inputs, built, now, service, night, genres, proxyGenres, identity,
                   confrontation, emotional, quarterlyBreakdown>>

NextQuarterly == BuildQuarterlyProxy \/ CalculateIdentityDrift

SpecQuarterly == InitQuarterly /\ [][NextQuarterly]_vars

(* Identity drift on its own: calculateIdentityDrift on every list of at   *)
(* most MaxWindows windows, each as makeQuarter builds it.                 *)

MaxWindows == 3

PeriodName(i) ==
    CASE i = 1 -> "Full Year"
      [] i = 2 -> "Mid-Year"
      [] i = 3 -> "Recent"
      [] OTHER -> "Later"

DriftWindows ==
    {[i \in DOMAIN w |-> WindowTrack(w[i])] :
        w \in {<<>>, <<"t6">>, <<"t2">>, <<"t3">>, <<"t10", "t8">>, <<"t2", "t3">>, <<"t13">>}}

InitDrift ==
    /\ done = {}
    /\ genres = NotRun
    /\ proxyGenres = NotRun
    /\ identity = NotRun
    /\ confrontation = NotRun
    /\ emotional = NotRun
    /\ repeatLoops = NotRun
    /\ insomnia = NotRun
    /\ nocturnal = NotRun
    /\ drift = NotRun
    /\ listeningProfile = NotRun
    /\ rerun = NotRun
    /\ zoneEntropy = NotRun
    /\ windowEntropy = NotRun
    /\ Idle
    /\ topArtists = <<>>
    /\ topTracks = <<>>
    /\ claimedGenres = <<>>
    /\ recentlyPlayed = <<>>
    /\ byRange = EmptyRanges
    /\ audioFeatures = [id \in WindowTrackIds |-> WindowFeatures(id)]
    /\ \E n \in 0..MaxWindows : \E ws \in [1..n -> DriftWindows] :
          quarterlyBreakdown = [i \in 1..n |-> makeQuarter(ws[i], PeriodName(i), audioFeatures)]

CalculateIdentityDriftOf ==
    /\ "calculateIdentityDrift" \notin done
    /\ drift' = calculateIdentityDrift(quarterlyBreakdown)
    /\ done' = done \cup {"calculateIdentityDrift"}
    /\ UNCHANGED <<inputs, built, now, service, night, genres, proxyGenres, identity,
                   confrontation, emotional, quarterlyBreakdown>>

NextDrift == CalculateIdentityDriftOf

SpecDrift == InitDrift /\ [][NextDrift]_vars

(* Emotional profile: the play history and the sample store, as            *)
(* buildListeningProfile hands them to calculateEmotionalProfile.          *)

MaxPlays == 4
MaxRunPlays == 7
MaxLoopPlays == 9
MaxStatePlays == 4
MaxRepeatPlays == 11
MaxSwingPlays == 4

SeqsUpTo(S, n) == UNION {[1..k -> S] : k \in 0..n}

Play(id, at) == [track |-> Track(id, <<>>, 200000), played_at |-> at]

\* A history in list order, oldest first or newest first, one play per tick
Oldest(ids) == [i \in 1..Len(ids) |-> Play(ids[i], i)]
Newest(ids) == [i \in 1..Len(ids) |-> Play(ids[i], Len(ids) + 1 - i)]

StoreOf(samples) ==
    [id \in {samples[i].id : i \in 1..Len(samples)} |->
        samples[CHOOSE i \in 1..Len(samples) : samples[i].id = id]]

\* m1..m5 have samples around the 0.35 threshold, m6 has none
MelancholyStore ==
    StoreOf(<<Features("m1", 10, 50, 100), Features("m2", 20, 50, 100),
              Features("m3", 15, 50, 100), Features("m4", 50, 50, 100),
              Features("m5", 35, 50, 100)>>)

\* r1 and r2 around the 0.4 threshold, each with or without a sample
LoopStores ==
    {StoreOf(a \o b) :
        a \in {<<>>, <<Features("r1", 20, 50, 100)>>, <<Features("r1", 40, 50, 100)>>},
        b \in {<<>>, <<Features("r2", 20, 50, 100)>>, <<Features("r2", 35, 50, 100)>>}}

\* Stores whose energy deviation is 0, 0.25, 0.3, 0.35, 0.4, and two with an
\* irrational one; valence deviation of s1, s3 exactly 0.25 in the last
StateStores ==
    {StoreOf(s) : s \in
        {<<>>,
         <<Features("s1", 80, 80, 100), Features("s2", 20, 80, 100), Features("s3", 35, 80, 100)>>,
         <<Features("s1", 80, 10, 100), Features("s2", 20, 90, 100)>>,
         <<Features("s1", 80, 15, 100), Features("s2", 20, 85, 100)>>,
         <<Features("s1", 80, 20, 100), Features("s2", 20, 80, 100)>>,
         <<Features("s1", 80, 25, 100), Features("s2", 20, 75, 100)>>,
         <<Features("s1", 80, 10, 100), Features("s2", 20, 90, 100), Features("s3", 35, 50, 100)>>,
         <<Features("s1", 80, 10, 100), Features("s2", 20, 90, 100), Features("s3", 35, 90, 100)>>,
         <<Features("s1", 80, 50, 100), Features("s3", 30, 50, 100)>>}}

\* o1 high in valence and energy, o2 at a valence of 0.3, o3 at 0.7 in both,
\* o4 low in valence and high in energy, o5 at a valence of 0.4
SwingStore ==
    StoreOf(<<Features("o1", 80, 80, 100), Features("o2", 30, 50, 100),
              Features("o3", 70, 70, 100), Features("o4", 20, 90, 100),
              Features("o5", 40, 50, 100)>>)

InitEmotional ==
    /\ NoOutputs
    /\ Idle
    /\ topArtists = <<>>
    /\ topTracks = <<>>
    /\ claimedGenres = <<>>
    /\ byRange = EmptyRanges
    /\ \/ /\ audioFeatures = MelancholyStore
          /\ \E ids \in SeqsUpTo({"m1", "m2", "m3", "m4", "m5", "m6"}, MaxPlays) :
                recentlyPlayed \in {Oldest(ids), Newest(ids)}
       \/ /\ audioFeatures = MelancholyStore
          /\ \E ids \in SeqsUpTo({"m1", "m2", "m5"}, MaxRunPlays) :
                recentlyPlayed = Oldest(ids)
       \/ /\ audioFeatures \in LoopStores
          /\ \E ids \in SeqsUpTo({"r1", "r2"}, MaxLoopPlays) :
                recentlyPlayed = Oldest(ids)
       \/ /\ audioFeatures \in LoopStores
          /\ \E n \in 0..MaxRepeatPlays :
                recentlyPlayed = Oldest([i \in 1..n |-> "r1"])
       \/ /\ audioFeatures = SwingStore
          /\ \E ids \in SeqsUpTo({"o1", "o2", "o3", "o4", "o5"}, MaxSwingPlays) :
                recentlyPlayed = Oldest(ids)
       \/ /\ audioFeatures \in StateStores
          /\ \E ids \in SeqsUpTo({"s1", "s2", "s3"}, MaxStatePlays) :
                recentlyPlayed = Oldest(ids)

CalculateEmotionalProfile ==
    /\ "calculateEmotionalProfile" \notin done
    /\ emotional' = calculateEmotionalProfile(RecentFeats(recentlyPlayed, audioFeatures),
                                              Timestamps(recentlyPlayed),
                                              RawTrackIds(recentlyPlayed),
                                              audioFeatures)
    /\ done' = done \cup {"calculateEmotionalProfile"}
    /\ UNCHANGED <<inputs, built, now, service, night, genres, proxyGenres, identity,
                   confrontation, quarterlyBreakdown, drift>>

NextEmotional == CalculateEmotionalProfile

SpecEmotional == InitEmotional /\ [][NextEmotional]_vars

(* Nocturnal analysis: detectRepeatLoops and analyzeNocturnalBehavior on   *)
(* the play history and the sample store.                                  *)

MaxNightHistory == 5
MaxMixedHistory == 3
MaxNightPlays == 3
MaxDayPlays == 10

\* The hour h of day d
At(d, h) == 24 * d + h

PlaysOf(events) == [i \in 1..Len(events) |-> Play(events[i][1], events[i][2])]

\* n1 at the sadness threshold, n2 below it, n3 without a sample; n1 with a
\* valence of 0; no samples at all
NightStores ==
    {StoreOf(s) : s \in
        {<<Features("n1", 40, 50, 100), Features("n2", 35, 50, 100)>>,
         <<Features("n1", 0, 50, 100), Features("n2", 20, 50, 100)>>,
         <<>>}}

\* k plays of n2 at 3 AM, on one day or on k days, then m plays of n3 at noon
NightThenDay(k, m, spread) ==
    [i \in 1..(k + m) |->
        IF i <= k THEN <<"n2", At(IF spread THEN i - 1 ELSE 0, 3)>>
        ELSE <<"n3", At(k, 12)>>]

InitNocturnal ==
    /\ NoOutputs
    /\ Idle
    /\ topArtists = <<>>
    /\ topTracks = <<>>
    /\ claimedGenres = <<>>
    /\ byRange = EmptyRanges
    /\ audioFeatures \in NightStores
    /\ \/ \E events \in SeqsUpTo({"n1", "n2"} \X {At(0, 5), At(0, 6)}, MaxNightHistory) :
             recentlyPlayed = PlaysOf(events)
       \/ \E events \in SeqsUpTo({"n1", "n2", "n3"} \X {At(0, 0), At(0, 23)}, MaxMixedHistory) :
             recentlyPlayed = PlaysOf(events)
       \/ \E k \in 0..MaxNightPlays, m \in 0..MaxDayPlays, spread \in BOOLEAN :
             recentlyPlayed = PlaysOf(NightThenDay(k, m, spread))

DetectRepeatLoops ==
    /\ "detectRepeatLoops" \notin done
    /\ repeatLoops' = detectRepeatLoops(recentlyPlayed, audioFeatures)
    /\ done' = done \cup {"detectRepeatLoops"}
    /\ UNCHANGED <<inputs, built, now, service, genres, proxyGenres, identity,
                   confrontation, emotional, quarterlyBreakdown, drift, insomnia,
                   nocturnal>>

AnalyzeNocturnalBehavior ==
    /\ "analyzeNocturnalBehavior" \notin done
    /\ nocturnal' = analyzeNocturnalBehavior(recentlyPlayed, audioFeatures)
    /\ done' = done \cup {"analyzeNocturnalBehavior"}
    /\ UNCHANGED <<inputs, built, now, service, genres, proxyGenres, identity,
                   confrontation, emotional, quarterlyBreakdown, drift, repeatLoops,
                   insomnia>>

NextNocturnal == DetectRepeatLoops \/ AnalyzeNocturnalBehavior

SpecNocturnal == InitNocturnal /\ [][NextNocturnal]_vars

(* Insomnia: detectInsomniaPatterns on histories in time order over the    *)
(* hours around the 2-5 AM window, on up to three days.                    *)

MaxInsomniaPlays == 4

InsomniaTimes == {At(d, h) : d \in 0..2, h \in {0, 1, 2, 5, 6}}

InitInsomnia ==
    /\ NoOutputs
    /\ Idle
    /\ topArtists = <<>>
    /\ topTracks = <<>>
    /\ claimedGenres = <<>>
    /\ byRange = EmptyRanges
    /\ audioFeatures = NoFeatures
    /\ \E times \in SeqsUpTo(InsomniaTimes, MaxInsomniaPlays) :
          /\ \A i \in 1..(Len(times) - 1) : times[i] <= times[i + 1]
          /\ recentlyPlayed = PlaysOf([i \in 1..Len(times) |-> <<"n1", times[i]>>])

DetectInsomniaPatterns ==
    /\ "detectInsomniaPatterns" \notin done
    /\ insomnia' = detectInsomniaPatterns(recentlyPlayed)
    /\ done' = done \cup {"detectInsomniaPatterns"}
    /\ UNCHANGED <<inputs, built, now, service, genres, proxyGenres, identity,
                   confrontation, emotional, quarterlyBreakdown, drift, repeatLoops,
                   nocturnal>>

NextInsomnia == DetectInsomniaPatterns

SpecInsomnia == InitInsomnia /\ [][NextInsomnia]_vars

(* The identity and nocturnal steps of buildListeningProfile on one input  *)

MaxProfileArtists == 2
MaxProfilePlays == 3

InitProfile ==
    /\ NoOutputs
    /\ Idle
    /\ topArtists \in RankedArtists({"1", "6", "9"}, MaxProfileArtists)
    /\ topTracks = <<>>
    /\ claimedGenres = <<>>
    /\ byRange = EmptyRanges
    /\ audioFeatures = NoFeatures
    /\ \E events \in SeqsUpTo({"n1"} \X {At(0, 0), At(0, 5), At(0, 6)}, MaxProfilePlays) :
          recentlyPlayed = PlaysOf(events)

NextProfile == CalculateIdentityProfile \/ AnalyzeNocturnalBehavior

SpecProfile == InitProfile /\ [][NextProfile]_vars

(* buildListeningProfile, called twice on one input at different times     *)

MaxBuildPlays == 3
MaxBuildTicks == 2

\* Rankings whose genre shares are powers of two
BuildRankings ==
    {<<>>, <<Artist("6")>>, <<Artist("2")>>, <<Artist("9")>>, <<Artist("6"), Artist("2")>>}

BuildTracks ==
    {<<>>, <<Track("b1", <<"6">>, 200000)>>,
     <<Track("b1", <<"6">>, 200000), Track("b2", <<"6">>, 100000), Track("b3", <<>>, 45000)>>}

\* b1 and b3 with a sample, b2 without
BuildStores ==
    {NoFeatures, StoreOf(<<Features("b1", 20, 80, 90), Features("b3", 60, 10, 150)>>)}

BuildRanges ==
    {EmptyRanges,
     [long |-> <<Track("b1", <<"6">>, 200000)>>,
      medium |-> <<>>,
      short |-> <<Track("b2", <<"2">>, 100000), Track("b3", <<"9">>, 45000)>>]}

InitBuild ==
    /\ NoOutputs
    /\ Idle
    /\ topArtists \in BuildRankings
    /\ topTracks \in BuildTracks
    /\ claimedGenres = <<>>
    /\ audioFeatures \in BuildStores
    /\ byRange \in BuildRanges
    /\ \E ids \in SeqsUpTo({"b1", "b2"}, MaxBuildPlays) : recentlyPlayed = Oldest(ids)

Data ==
    [topTracks |-> topTracks, topArtists |-> topArtists, recentlyPlayed |-> recentlyPlayed,
     audioFeatures |-> audioFeatures]

BuildListeningProfile ==
    /\ "buildListeningProfile" \notin done
    /\ listeningProfile' = buildListeningProfile(Data, byRange)
    /\ done' = done \cup {"buildListeningProfile"}
    /\ UNCHANGED <<inputs, night, now, service, genres, proxyGenres, identity, confrontation,
                   emotional, quarterlyBreakdown, drift, rerun, zoneEntropy, windowEntropy>>

\* Time passes between the two calls
Tick ==
    /\ "buildListeningProfile" \in done
    /\ "again" \notin done
    /\ now < 1000 * MaxBuildTicks
    /\ now' = now + 1000
    /\ UNCHANGED <<inputs, analysis, night, built, service>>

BuildListeningProfileAgain ==
    /\ "buildListeningProfile" \in done
    /\ "again" \notin done
    /\ rerun' = buildListeningProfile(Data, byRange)
    /\ done' = done \cup {"again"}
    /\ UNCHANGED <<inputs, night, now, service, genres, proxyGenres, identity, confrontation,
                   emotional, quarterlyBreakdown, drift, listeningProfile, zoneEntropy,
                   windowEntropy>>

NextBuild == BuildListeningProfile \/ Tick \/ BuildListeningProfileAgain

SpecBuild == InitBuild /\ [][NextBuild]_vars

(* Genre entropy: transformer.ts calculateGenreEntropy on the identity's   *)
(* genres, identity-profile.ts calculateGenreEntropy on a window's genres, *)
(* on rankings whose genre shares are powers of two.                       *)

MaxEntropyArtists == 2

EntropyPool == {"2", "3", "6", "7", "8", "9", "11"}

IsPowerOfTwo(n) == \E k \in 0..4 : n = 2 ^ k

\* The shares 1, 1/2, 1/4, 1/8, 1/16, on which Math.log2 is exact
HasBinaryShares(gs) ==
    LET total == RSum(Weights(gs))
    IN  \A i \in 1..Len(gs) :
           LET p == RDiv(gs[i].weight, total)
           IN  p[1] = 1 /\ IsPowerOfTwo(p[2])

InitEntropy ==
    /\ NoOutputs
    /\ Idle
    /\ topArtists \in {r \in RankedArtists(EntropyPool, MaxEntropyArtists) :
                          HasBinaryShares(aggregateGenres(r))}
    /\ topTracks = <<>>
    /\ claimedGenres = <<>>
    /\ recentlyPlayed = <<>>
    /\ audioFeatures = NoFeatures
    /\ byRange = EmptyRanges

\* calculateGenreEntropy(identity.actualTopGenres) in buildListeningProfile
CalculateZoneEntropy ==
    /\ "aggregateGenres" \in done
    /\ "zoneEntropy" \notin done
    /\ zoneEntropy' = transformerGenreEntropy(genres)
    /\ done' = done \cup {"zoneEntropy"}
    /\ UNCHANGED <<inputs, genres, proxyGenres, identity, confrontation, emotional,
                   quarterlyBreakdown, drift, night, now, service, listeningProfile, rerun,
                   windowEntropy>>

\* calculateGenreEntropy(q.topGenres) in calculateIdentityDrift
CalculateWindowEntropy ==
    /\ "aggregateGenresFromArtists" \in done
    /\ "windowEntropy" \notin done
    /\ windowEntropy' = calculateGenreEntropy(proxyGenres)
    /\ done' = done \cup {"windowEntropy"}
    /\ UNCHANGED <<inputs, genres, proxyGenres, identity, confrontation, emotional,
                   quarterlyBreakdown, drift, night, now, service, listeningProfile, rerun,
                   zoneEntropy>>

NextEntropy ==
    AggregateGenres \/ AggregateGenresFromArtists \/ CalculateZoneEntropy
        \/ CalculateWindowEntropy

SpecEntropy == InitEntropy /\ [][NextEntropy]_vars

----------------------------------------------------------------------------
(* The SpotifyService: one page at a time holds an instance, localStorage  *)
(* outlives it. The analyzers' inputs stay empty.                          *)

MaxServiceTicks == 2
MaxInFlight == 2
MaxExchanges == 1
MaxCalls == 10

\* The token endpoint's answers: { access_token, refresh_token, expires_in }
AccessTokens == {<<"A">>, <<"B">>}
TokenResponses ==
    [access_token : AccessTokens, refresh_token : {<<"R">>}, expires_in : {1, 2}]

\* generateCodeVerifier(): an opaque non-empty string
CodeVerifier == <<"V">>

\* The statuses the API answers with
Statuses == {200, 401, 500}

\* What the page finds in localStorage: nothing, a session that lasts until
\* the first second has passed, or one from which a key has been deleted
FoundStorages ==
    {EmptyStorage,
     storedTokens(EmptyStorage, [access_token |-> <<"A">>, refresh_token |-> <<"R">>], 1000),
     setItem(EmptyStorage, "spotify_access_token", <<"A">>),
     setItem(EmptyStorage, "spotify_token_expiry", NumberToString(1000))}

InitService ==
    /\ NoOutputs
    /\ now = 0
    /\ localStorage \in FoundStorages
    /\ Constructed
    /\ topArtists = <<>>
    /\ topTracks = <<>>
    /\ claimedGenres = <<>>
    /\ byRange = EmptyRanges
    /\ recentlyPlayed = <<>>
    /\ audioFeatures = StoreOf(<<>>)

\* A step of the service leaves the analyzers alone and is counted
ServiceStep ==
    /\ calls < MaxCalls
    /\ calls' = calls + 1
    /\ UNCHANGED <<inputs, analysis, night, built, now>>

\* Date.now() moves on by a second
Elapse ==
    /\ now < MaxServiceTicks * 1000
    /\ now' = now + 1000
    /\ UNCHANGED <<inputs, analysis, night, built, service>>

\* The page is loaded anew: a new SpotifyService, nothing awaited any more
Reload ==
    /\ ServiceStep
    /\ accessToken' = NULL
    /\ tokenExpiry' = 0
    /\ inFlight' = <<>>
    /\ exchange' = 0
    /\ outcome' = Outcome("constructor", "none", "none")
    /\ UNCHANGED localStorage

InitializeFromStorage ==
    LET storedToken == localStorage["spotify_access_token"]
        expiry == localStorage["spotify_token_expiry"]
    IN  /\ ServiceStep
        /\ IF storedToken # NULL /\ expiry # NULL
           THEN IF isExpired(now, parseInt(expiry))
                THEN /\ accessToken' = NULL
                     /\ tokenExpiry' = 0
                     /\ localStorage' = clearStorage(localStorage)
                     /\ outcome' = Outcome("initializeFromStorage", "false", "none")
                ELSE /\ accessToken' = storedToken
                     /\ tokenExpiry' = parseInt(expiry)
                     /\ outcome' = Outcome("initializeFromStorage", "true", "none")
                     /\ UNCHANGED localStorage
           ELSE /\ outcome' = Outcome("initializeFromStorage", "false", "none")
                /\ UNCHANGED <<accessToken, tokenExpiry, localStorage>>
        /\ UNCHANGED <<inFlight, exchange>>

\* clearStorage, as the page calls it when loading the data has failed
ClearStorage ==
    /\ ServiceStep
    /\ accessToken' = NULL
    /\ tokenExpiry' = 0
    /\ localStorage' = clearStorage(localStorage)
    /\ outcome' = Outcome("clearStorage", "none", "none")
    /\ UNCHANGED <<inFlight, exchange>>

\* The verifier is stored and the page leaves for the authorization endpoint
InitiateAuth ==
    /\ ServiceStep
    /\ localStorage' = setItem(localStorage, "spotify_code_verifier", CodeVerifier)
    /\ outcome' = Outcome("initiateAuth", "none", "none")
    /\ UNCHANGED <<accessToken, tokenExpiry, inFlight, exchange>>

\* handleCallback up to its await of the token endpoint
HandleCallback ==
    /\ ServiceStep
    /\ IF localStorage["spotify_code_verifier"] = NULL
       THEN /\ outcome' = Outcome("handleCallback", "none", "Code verifier not found")
            /\ UNCHANGED exchange
       ELSE /\ exchange < MaxExchanges
            /\ exchange' = exchange + 1
            /\ outcome' = Outcome("handleCallback", "pending", "none")
    /\ UNCHANGED <<accessToken, tokenExpiry, localStorage, inFlight>>

\* handleCallback from the token endpoint's answer on
HandleCallbackAnswered ==
    /\ ServiceStep
    /\ exchange > 0
    /\ exchange' = exchange - 1
    /\ \/ /\ outcome' = Outcome("handleCallback", "none", "Token exchange failed")
          /\ UNCHANGED <<accessToken, tokenExpiry, localStorage>>
       \/ \E tokens \in TokenResponses :
             /\ accessToken' = tokens.access_token
             /\ tokenExpiry' = now + tokens.expires_in * 1000
             /\ localStorage' = storedTokens(localStorage, tokens,
                                             now + tokens.expires_in * 1000)
             /\ outcome' = Outcome("handleCallback", "true", "none")
    /\ UNCHANGED inFlight

\* request up to its await of the API: the bearer token goes out
Request ==
    /\ ServiceStep
    /\ IF accessToken = NULL
       THEN /\ outcome' = Outcome("request", "none", "Not authenticated")
            /\ UNCHANGED inFlight
       ELSE /\ Len(inFlight) < MaxInFlight
            /\ inFlight' = Append(inFlight, accessToken)
            /\ outcome' = Outcome("request", "pending", "none")
    /\ UNCHANGED <<accessToken, tokenExpiry, localStorage, exchange>>

\* request from the API's answer on; the answers come in any order
RequestAnswered ==
    /\ ServiceStep
    /\ \E i \in 1..Len(inFlight), status \in Statuses :
          /\ inFlight' = SubSeq(inFlight, 1, i - 1) \o SubSeq(inFlight, i + 1, Len(inFlight))
          /\ IF status = 401
             THEN /\ accessToken' = NULL
                  /\ tokenExpiry' = 0
                  /\ localStorage' = clearStorage(localStorage)
                  /\ outcome' = Outcome("request", "none", "Token expired")
             ELSE /\ outcome' = IF status = 200
                                THEN Outcome("request", "data", "none")
                                ELSE Outcome("request", "none", "API request failed")
                  /\ UNCHANGED <<accessToken, tokenExpiry, localStorage>>
    /\ UNCHANGED exchange

NextService ==
    \/ Elapse
    \/ Reload
    \/ InitializeFromStorage
    \/ ClearStorage
    \/ InitiateAuth
    \/ HandleCallback
    \/ HandleCallbackAnswered
    \/ Request
    \/ RequestAnswered

SpecService == InitService /\ [][NextService]_vars

----------------------------------------------------------------------------
(* Claims on genre aggregation (SpecGenre) *)

Percentages(gs) == [i \in 1..Len(gs) |-> gs[i].percentage]
Names(gs) == [i \in 1..Len(gs) |-> gs[i].name]
Range(s) == {s[i] : i \in 1..Len(s)}

\* The results of the two aggregators that have run
Aggregated ==
    (IF "aggregateGenres" \in done THEN {genres} ELSE {})
        \cup (IF "aggregateGenresFromArtists" \in done THEN {proxyGenres} ELSE {})

\* The weight the contract gives a genre: 1/(i+1) from each artist at
\* 0-based index i that carries it
ContractWeight(g, artists) ==
    RSum([i \in 1..Len(artists) |->
             IF g \in Range(artists[i].genres) THEN Rat(1, i) ELSE Zero])

\* All tags in scanning order: artists in rank order, each artist's tags in order
TagScan(artists) == Flatten([i \in 1..Len(artists) |-> artists[i].genres])
FirstSeen(g, artists) ==
    CHOOSE i \in 1..Len(TagScan(artists)) :
        /\ TagScan(artists)[i] = g
        /\ \A j \in 1..(i - 1) : TagScan(artists)[j] # g

\* C1: whenever genre aggregation returns a non-empty list, the percentage
\* fields of the returned entries sum to 1, also when more than 10 distinct
\* genres were seen and the result is cut to the top 10.
C1_PercentagesSumToOne ==
    \A gs \in Aggregated : gs # <<>> => RSum(Percentages(gs)) = One

\* Three ranked artists with one genre each, all distinct
ScenarioA ==
    /\ Len(topArtists) = 3
    /\ \A i \in 1..3 : Len(topArtists[i].genres) = 1
    /\ Cardinality(Range(TagScan(topArtists))) = 3

\* C2: the artist at 0-based index i adds exactly 1/(i+1) to the weight of
\* every genre it carries and the weight of a genre is the sum of these
\* contributions; three artists with one distinct genre each give the
\* weights 1, 1/2, 1/3 with artist 0's genre on top.
C2_PositionDecayWeights ==
    \A gs \in Aggregated :
        /\ \A i \in 1..Len(gs) : gs[i].weight = ContractWeight(gs[i].name, topArtists)
        /\ ScenarioA =>
              /\ Weights(gs) = <<One, <<1, 2>>, <<1, 3>>>>
              /\ gs[1].name = topArtists[1].genres[1]

C2_Witness ==
    /\ done = {"aggregateGenres", "aggregateGenresFromArtists"}
    /\ ScenarioA
    /\ Names(genres) = <<"jazz", "techno", "pop">>
    /\ Weights(genres) = <<One, <<1, 2>>, <<1, 3>>>>
    /\ proxyGenres = genres

\* C3: at most 10 entries, in order of non-increasing weight, which are the
\* 10 heaviest genres; entries of equal weight stand in the order in which
\* their genres were first met scanning the artists by rank and each artist's
\* tags in order; no artists give the empty list.
C3_TopTenStable ==
    \A gs \in Aggregated :
        LET seen == Range(TagScan(topArtists))
            kept == Range(Names(gs))
        IN  /\ Len(gs) = (IF Cardinality(seen) < 10 THEN Cardinality(seen) ELSE 10)
            /\ Cardinality(kept) = Len(gs)
            /\ kept \subseteq seen
            /\ \A i, j \in 1..Len(gs) : i < j => ~RLt(gs[i].weight, gs[j].weight)
            /\ \A g \in seen \ kept : \A i \in 1..Len(gs) :
                   ~RLt(gs[i].weight, ContractWeight(g, topArtists))
            /\ \A i, j \in 1..Len(gs) :
                   (i < j /\ gs[i].weight = gs[j].weight)
                       => FirstSeen(gs[i].name, topArtists) < FirstSeen(gs[j].name, topArtists)
            /\ topArtists = <<>> => gs = <<>>

\* More than 10 distinct genres, cut to 10, with a tie among the kept ones
C3_Witness ==
    /\ "aggregateGenres" \in done
    /\ Cardinality(Range(TagScan(topArtists))) > 10
    /\ Len(genres) = 10
    /\ \E i \in 1..9 : genres[i].weight = genres[i + 1].weight
    /\ \E i \in 1..9 : RGt(genres[i].weight, genres[i + 1].weight)

----------------------------------------------------------------------------
(* Claims on the identity summary (SpecIdentity) *)

LowerNames(names) == {toLowerCase(Chars(names[i])) : i \in 1..Len(names)}

\* The claimed genres and the top-3 actual genres share no name (ignoring case)
Disjoint(profile) ==
    LowerNames(profile.claimedGenres)
        \cap LowerNames(Names(Slice(profile.actualTopGenres, 3))) = {}

\* No claimed genre is contained in, or contains, a top-3 actual genre name
\* (ignoring case)
Unrelated(profile) ==
    \A c \in LowerNames(profile.claimedGenres) :
        \A a \in LowerNames(Names(Slice(profile.actualTopGenres, 3))) :
            ~includes(a, c) /\ ~includes(c, a)

\* The summary the priority order gives once the mismatch test is decided
Summary(profile, mismatch) ==
    CASE mismatch -> "mismatch"
      [] ~mismatch /\ RGt(profile.mainstreamPercentage, <<6, 10>>) -> "mainstream"
      [] ~mismatch /\ ~RGt(profile.mainstreamPercentage, <<6, 10>>)
            /\ RGt(profile.hipsterScore, <<7, 10>>) -> "hipster"
      [] ~mismatch /\ ~RGt(profile.mainstreamPercentage, <<6, 10>>)
            /\ ~RGt(profile.hipsterScore, <<7, 10>>)
            /\ RGt(profile.artistDiversity, <<1, 2>>) -> "diverse"
      [] ~mismatch /\ ~RGt(profile.mainstreamPercentage, <<6, 10>>)
            /\ ~RGt(profile.hipsterScore, <<7, 10>>)
            /\ ~RGt(profile.artistDiversity, <<1, 2>>)
            /\ RLt(profile.artistDiversity, <<2, 10>>) -> "loyal"
      [] OTHER -> "default"

\* C8 as stated: mismatch is chosen exactly when the claimed genres are
\* non-empty and disjoint from the top-3 actual genres; then mainstream% > 0.6,
\* hipsterScore > 0.7, diversity > 0.5, diversity < 0.2, default.
C8_DisjointMismatch ==
    "generateIdentityConfrontation" \in done =>
        confrontation = Summary(identity, identity.claimedGenres # <<>> /\ Disjoint(identity))

\* C8, amended: mismatch is chosen exactly when the claimed genres are
\* non-empty and none of them is a substring of, or has as a substring, one of
\* the top-3 actual genre names (case-insensitively); the rest of the priority
\* order is as stated, and an empty claimed list never gives mismatch.
C8_SubstringMismatch ==
    "generateIdentityConfrontation" \in done =>
        /\ confrontation = Summary(identity, identity.claimedGenres # <<>> /\ Unrelated(identity))
        /\ identity.claimedGenres = <<>> => confrontation # "mismatch"

\* A claimed genre that only overlaps a top-3 name ("pop" in "pop rap"): the
\* lists are disjoint, yet the summary is not mismatch
C8_Witness ==
    /\ "generateIdentityConfrontation" \in done
    /\ identity.claimedGenres = <<"pop">>
    /\ Names(Slice(identity.actualTopGenres, 3)) = <<"canadian hip hop", "hip hop", "pop rap">>
    /\ Disjoint(identity)
    /\ confrontation = "mainstream"

----------------------------------------------------------------------------
(* Claims on the quarterly windows and phase shifts (SpecQuarterly) *)

\* Shannon entropy in bits of shares that are powers of two: a share of
\* 2^-k carries k bits
BitsOf(share) == CHOOSE k \in 0..16 : share[1] * (2 ^ k) = share[2]
ShannonBits(gs) ==
    LET total == RSum(Weights(gs))
    IN  RSum([i \in 1..Len(gs) |->
                 RMul(RDiv(gs[i].weight, total), <<BitsOf(RDiv(gs[i].weight, total)), 1>>)])

\* The name of a window's top genre, "unknown" for a window without genres
TopGenreOf(q) == IF q.topGenres = <<>> THEN "unknown" ELSE q.topGenres[1].name

\* The pair of windows (i-1, i) counts as a phase transition
Significant(qs, i) ==
    \/ RGt(RAbs(RSub(ShannonBits(qs[i].topGenres), ShannonBits(qs[i - 1].topGenres))), <<1, 2>>)
    \/ TopGenreOf(qs[i]) # TopGenreOf(qs[i - 1])

\* C6: over the windows Full Year, Mid-Year, Recent a transition is reported
\* for a consecutive pair iff the absolute entropy change exceeds 0.5
\* (strictly) or the name of the top genre differs; so at most two
\* transitions, reported in window order.
C6_SignificantShifts ==
    "calculateIdentityDrift" \in done =>
        LET qs == quarterlyBreakdown
            pairs == SelectSeq(<<2, 3>>, LAMBDA i : Significant(qs, i))
        IN  /\ <<qs[1].period, qs[2].period, qs[3].period>> = <<"Full Year", "Mid-Year", "Recent">>
            /\ Len(drift.shifts) <= 2
            /\ [k \in 1..Len(drift.shifts) |-> drift.shifts[k].quarter]
                   = [k \in 1..Len(pairs) |-> qs[pairs[k]].period]
            /\ \A k \in 1..Len(pairs) :
                   /\ drift.shifts[k].beforeEntropy = ShannonBits(qs[pairs[k] - 1].topGenres)
                   /\ drift.shifts[k].afterEntropy = ShannonBits(qs[pairs[k]].topGenres)
                   /\ drift.shifts[k].topGenreBefore = TopGenreOf(qs[pairs[k] - 1])
                   /\ drift.shifts[k].topGenreAfter = TopGenreOf(qs[pairs[k]])

\* Entropies 1, 1.5, 2.5 with "pop" on top throughout: the change of exactly
\* 0.5 is no transition, the change of 1 is the only one
C6_Witness ==
    /\ "calculateIdentityDrift" \in done
    /\ [i \in 1..3 |-> ShannonBits(quarterlyBreakdown[i].topGenres)] = <<One, <<3, 2>>, <<5, 2>>>>
    /\ \A i \in 1..3 : TopGenreOf(quarterlyBreakdown[i]) = "pop"
    /\ Len(drift.shifts) = 1
    /\ drift.shifts[1].quarter = "Recent"
    /\ drift.shifts[1].beforeEntropy = <<3, 2>>
    /\ drift.shifts[1].afterEntropy = <<5, 2>>

\* The unique artists of a window's tracks that carry genre g
Carriers(tracks, g) ==
    {a \in Range(Flatten([i \in 1..Len(tracks) |-> tracks[i].artists])) : g \in Range(a.genres)}

WindowTracks(i) == <<byRange.long, byRange.medium, byRange.short>>[i]

\* C9: in each of the three windows every unique artist contributes the same
\* weight to each of its genres whatever its position: the weight of a genre
\* is proportional to the number of unique artists that carry it.
C9_UniformWindowWeights ==
    "buildQuarterlyProxy" \in done =>
        \A i \in 1..3 :
            LET gs == quarterlyBreakdown[i].topGenres
            IN  \A j, k \in 1..Len(gs) :
                    RMul(gs[j].weight, <<Cardinality(Carriers(WindowTracks(i), gs[k].name)), 1>>)
                        = RMul(gs[k].weight, <<Cardinality(Carriers(WindowTracks(i), gs[j].name)), 1>>)

\* C10: the mainstreamPercentage of every window equals the IdentityAnalyzer's
\* mainstreamPercentage of the window's genre shares, and both classify the
\* same genres as mainstream.
C10_SameMainstreamShare ==
    "buildQuarterlyProxy" \in done =>
        \A i \in 1..3 :
            LET q == quarterlyBreakdown[i]
            IN  /\ q.mainstreamPercentage = calculateMainstreamPercentage(q.topGenres)
                /\ \A j \in 1..Len(q.topGenres) :
                       isMainstreamGenre(q.topGenres[j].name)
                           <=> \E k \in MAINSTREAM_KEYWORDS :
                                   includes(toLowerCase(Chars(q.topGenres[j].name)), Chars(k))

----------------------------------------------------------------------------
(* Emotional profile *)

EmotionalRun == "calculateEmotionalProfile" \in done

\* The chronological sample list the profile was computed from
Samples == RecentFeats(recentlyPlayed, audioFeatures)
Low(i) == RLt(Samples[i].valence, <<35, 100>>)

\* <<a, b>>: a maximal contiguous stretch a..b of low-valence samples
MaximalRuns ==
    {r \in (1..Len(Samples)) \X (1..Len(Samples)) :
        /\ r[1] <= r[2]
        /\ \A i \in r[1]..r[2] : Low(i)
        /\ (r[1] = 1 \/ ~Low(r[1] - 1))
        /\ (r[2] = Len(Samples) \/ ~Low(r[2] + 1))}
LongRuns == {r \in MaximalRuns : r[2] - r[1] + 1 >= 3}

\* The k-th long run in list order
RunAt(k) == CHOOSE r \in LongRuns : Cardinality({q \in LongRuns : q[1] < r[1]}) = k - 1
MeanValence(r) ==
    RDiv(RSum([i \in 1..(r[2] - r[1] + 1) |-> Samples[r[1] + i - 1].valence]),
         <<r[2] - r[1] + 1, 1>>)

\* C4: melancholyClusters lists, in list order, exactly the maximal runs of
\* samples with valence < 0.35 that are at least 3 long, each with its length
\* and the mean valence of its samples; shorter runs are left out, a sample at
\* exactly 0.35 ends a run, a run reaching the end of the list is reported.
C4_MelancholyRuns ==
    EmotionalRun =>
        /\ Len(emotional.melancholyClusters) = Cardinality(LongRuns)
        /\ \A k \in 1..Len(emotional.melancholyClusters) :
              /\ emotional.melancholyClusters[k].repeatCount = RunAt(k)[2] - RunAt(k)[1] + 1
              /\ emotional.melancholyClusters[k].valence = MeanValence(RunAt(k))

\* Scenario B: valences 0.1, 0.2, 0.15, 0.5 give one run over the first three
\* samples with mean 0.15
C4_Witness ==
    /\ EmotionalRun
    /\ Valences(Samples) = <<<<1, 10>>, <<1, 5>>, <<3, 20>>, <<1, 2>>>>
    /\ Timestamps(recentlyPlayed) = <<1, 2, 3, 4>>
    /\ emotional.melancholyClusters =
           <<[start |-> 1, end |-> 3, valence |-> <<3, 20>>, repeatCount |-> 3]>>

\* Occurrences of a track id in the raw play sequence
Plays(id) ==
    Cardinality({i \in 1..Len(recentlyPlayed) : recentlyPlayed[i].track.id = id})
Qualifying ==
    {id \in DOMAIN audioFeatures :
        Plays(id) > 3 /\ RLt(audioFeatures[id].valence, <<4, 10>>)}
TopPlays == CHOOSE n \in {Plays(id) : id \in Qualifying} :
                \A id \in Qualifying : Plays(id) <= n
RepeatLoops == SelectSeq(emotional.copingIndicators, LAMBDA c : c.type = "repeat_loop")

\* C5: a repeat_loop signal is emitted iff some track id is played more than
\* 3 times in the raw sequence and its stored sample has valence < 0.4; there
\* is at most one, it is for a qualifying track with the highest count, and
\* its severity is min(count / 10, 1).
C5_RepeatLoop ==
    EmotionalRun =>
        /\ Len(RepeatLoops) <= 1
        /\ Len(RepeatLoops) = 1 <=> Qualifying # {}
        /\ Len(RepeatLoops) = 1 =>
              /\ RepeatLoops[1].severity = Real(RMin(Rat(TopPlays, 10), One))
              /\ \E id \in Qualifying :
                    /\ Plays(id) = TopPlays
                    /\ RepeatLoops[1].evidence = <<audioFeatures[id].valence, TopPlays>>

\* Scenario C: five plays of one track whose sample has valence 0.2
C5_Witness ==
    /\ EmotionalRun
    /\ RawTrackIds(recentlyPlayed) = <<"r1", "r1", "r1", "r1", "r1">>
    /\ "r1" \in DOMAIN audioFeatures
    /\ audioFeatures["r1"].valence = <<1, 5>>
    /\ Len(RepeatLoops) = 1
    /\ RepeatLoops[1].severity = Real(<<1, 2>>)

\* Mean severity of the emitted signals, 0 when there are none
MeanSeverity ==
    LET signals == emotional.copingIndicators
    IN  IF Len(signals) = 0 THEN Real(Zero)
        ELSE RealScale(RealSum([i \in 1..Len(signals) |-> signals[i].severity]),
                       Rat(1, Len(signals)))

StateTags ==
    {"intense_processing", "active_coping", "emotional_exploration",
     "emotional_oscillation", "emotional_stability"}

CascadeTag ==
    IF RealGt(MeanSeverity, <<7, 10>>) THEN "intense_processing"
    ELSE IF RealGt(MeanSeverity, <<4, 10>>) THEN "active_coping"
    ELSE IF RealGt(emotional.valenceVolatility, <<1, 4>>) THEN "emotional_exploration"
    ELSE IF RGt(emotional.oscillationPattern, <<1, 10>>) THEN "emotional_oscillation"
    ELSE "emotional_stability"

----------------------------------------------------------------------------
(* Window mood averages (SpecQuarterly) *)

\* The samples the store has for the tracks of window i
WindowSamples(i) == MatchedFeatures(TrackIds(WindowTracks(i)), audioFeatures)

MeanOf(values) == RDiv(RSum(values), <<Len(values), 1>>)

\* C11: in every window averageValence and averageEnergy are the means over
\* the window's tracks that have a sample, and 0.5 only when none has one; a
\* mean of 0 over matched samples stays 0.
C11_WindowMoodMeans ==
    "buildQuarterlyProxy" \in done =>
        \A i \in 1..3 :
            /\ quarterlyBreakdown[i].averageValence =
                   IF WindowSamples(i) = <<>> THEN <<1, 2>>
                   ELSE MeanOf(Valences(WindowSamples(i)))
            /\ quarterlyBreakdown[i].averageEnergy =
                   IF WindowSamples(i) = <<>> THEN <<1, 2>>
                   ELSE MeanOf(Energies(WindowSamples(i)))

----------------------------------------------------------------------------
(* Trigger and reading of a reported transition (SpecQuarterly) *)

DriftRun == "calculateIdentityDrift" \in done

\* The windows a reported transition lies between
After(shift) ==
    quarterlyBreakdown[CHOOSE i \in 2..3 : quarterlyBreakdown[i].period = shift.quarter]
Before(shift) ==
    quarterlyBreakdown[(CHOOSE i \in 2..3 : quarterlyBreakdown[i].period = shift.quarter) - 1]

\* to exceeds from by more than by; to is below from by more than by
RoseBy(from, to, by) == RGt(RSub(to, from), by)
DroppedBy(from, to, by) == RGt(RSub(from, to), by)

MoodDropped(b, a, by) ==
    DroppedBy(b.averageValence, a.averageValence, by)
        /\ DroppedBy(b.averageEnergy, a.averageEnergy, by)
MoodRose(b, a, by) ==
    RoseBy(b.averageValence, a.averageValence, by)
        /\ RoseBy(b.averageEnergy, a.averageEnergy, by)

TriggerOf(b, a) ==
    CASE RoseBy(b.mainstreamPercentage, a.mainstreamPercentage, <<1, 5>>) -> "comfort_seeking"
      [] ~RoseBy(b.mainstreamPercentage, a.mainstreamPercentage, <<1, 5>>)
            /\ DroppedBy(b.mainstreamPercentage, a.mainstreamPercentage, <<1, 5>>) -> "exploration"
      [] ~RoseBy(b.mainstreamPercentage, a.mainstreamPercentage, <<1, 5>>)
            /\ ~DroppedBy(b.mainstreamPercentage, a.mainstreamPercentage, <<1, 5>>)
            /\ MoodDropped(b, a, <<3, 20>>) -> "emotional_shift"
      [] ~RoseBy(b.mainstreamPercentage, a.mainstreamPercentage, <<1, 5>>)
            /\ ~DroppedBy(b.mainstreamPercentage, a.mainstreamPercentage, <<1, 5>>)
            /\ ~MoodDropped(b, a, <<3, 20>>)
            /\ MoodRose(b, a, <<3, 20>>) -> "positive_change"
      [] OTHER -> "natural_evolution"

\* C17: the trigger of every reported transition is the first match of:
\* mainstream% up by more than 0.2 (comfort_seeking), down by more than 0.2
\* (exploration), valence and energy both down by more than 0.15
\* (emotional_shift), both up by more than 0.15 (positive_change), else
\* natural_evolution; a change of exactly the threshold does not match.
C17_ShiftTrigger ==
    DriftRun =>
        \A k \in 1..Len(drift.shifts) :
            drift.shifts[k].trigger = TriggerOf(Before(drift.shifts[k]), After(drift.shifts[k]))

\* A transition whose valence dropped by exactly 0.15, with energy down by
\* more: no emotional_shift
C17_Witness ==
    /\ DriftRun
    /\ \E k \in 1..Len(drift.shifts) :
          LET b == Before(drift.shifts[k])
              a == After(drift.shifts[k])
          IN  /\ b.mainstreamPercentage = a.mainstreamPercentage
              /\ RSub(b.averageValence, a.averageValence) = <<3, 20>>
              /\ DroppedBy(b.averageEnergy, a.averageEnergy, <<3, 20>>)
              /\ drift.shifts[k].trigger = "natural_evolution"

ReadingOf(b, a) ==
    CASE /\ RLt(ShannonBits(a.topGenres), ShannonBits(b.topGenres))
         /\ RoseBy(b.mainstreamPercentage, a.mainstreamPercentage, <<1, 10>>)
             -> "retreat_to_comfort"
      [] /\ ~(/\ RLt(ShannonBits(a.topGenres), ShannonBits(b.topGenres))
              /\ RoseBy(b.mainstreamPercentage, a.mainstreamPercentage, <<1, 10>>))
         /\ RoseBy(ShannonBits(b.topGenres), ShannonBits(a.topGenres), <<3, 10>>)
         /\ TopGenreOf(a) # TopGenreOf(b)
             -> "exploratory_escape"
      [] /\ ~(/\ RLt(ShannonBits(a.topGenres), ShannonBits(b.topGenres))
              /\ RoseBy(b.mainstreamPercentage, a.mainstreamPercentage, <<1, 10>>))
         /\ ~(/\ RoseBy(ShannonBits(b.topGenres), ShannonBits(a.topGenres), <<3, 10>>)
              /\ TopGenreOf(a) # TopGenreOf(b))
         /\ MoodDropped(b, a, <<1, 10>>)
             -> "emotional_processing"
      [] OTHER -> "genuine_evolution"

\* C18: the psychologicalReading of every reported transition is the first
\* match of: entropy dropped and mainstream% rose by more than 0.1
\* (retreat_to_comfort), entropy rose by more than 0.3 and the top genre
\* changed (exploratory_escape), valence and energy both dropped by more than
\* 0.1 (emotional_processing), else genuine_evolution.
C18_ShiftReading ==
    DriftRun =>
        \A k \in 1..Len(drift.shifts) :
            drift.shifts[k].psychologicalReading
                = ReadingOf(Before(drift.shifts[k]), After(drift.shifts[k]))

\* A transition that matches the first test and the third: it reads
\* retreat_to_comfort
C18_Witness ==
    /\ DriftRun
    /\ \E k \in 1..Len(drift.shifts) :
          LET b == Before(drift.shifts[k])
              a == After(drift.shifts[k])
          IN  /\ RLt(ShannonBits(a.topGenres), ShannonBits(b.topGenres))
              /\ RoseBy(b.mainstreamPercentage, a.mainstreamPercentage, <<1, 10>>)
              /\ MoodDropped(b, a, <<1, 10>>)
              /\ drift.shifts[k].psychologicalReading = "retreat_to_comfort"

----------------------------------------------------------------------------
(* Overall stability (SpecDrift) *)

WindowBits == [i \in 1..Len(quarterlyBreakdown) |-> ShannonBits(quarterlyBreakdown[i].topGenres)]

\* Mean absolute entropy change over the consecutive pairs, 0 without a pair
MeanChange ==
    IF Len(WindowBits) < 2 THEN Zero
    ELSE RDiv(RSum([i \in 1..(Len(WindowBits) - 1) |->
                       RAbs(RSub(WindowBits[i + 1], WindowBits[i]))]),
              <<Len(WindowBits) - 1, 1>>)

\* C19: overallStability is 1 - min(m, 1) for the mean absolute entropy
\* change m over the consecutive window pairs; it lies in [0, 1], is 1 when
\* all entropies are equal or there are fewer than two windows, and 0 when m
\* is 1 or more.
C19_OverallStability ==
    DriftRun =>
        /\ drift.overallStability = RSub(One, IF RGt(MeanChange, One) THEN One ELSE MeanChange)
        /\ ~RLt(drift.overallStability, Zero) /\ ~RGt(drift.overallStability, One)
        /\ (Len(WindowBits) < 2 \/ \A i, j \in 1..Len(WindowBits) : WindowBits[i] = WindowBits[j])
              => drift.overallStability = One
        /\ ~RLt(MeanChange, One) => drift.overallStability = Zero

\* Entropies 0, 2, 1: changes 2 and 1
C19_Witness ==
    /\ DriftRun
    /\ WindowBits = <<Zero, <<2, 1>>, One>>
    /\ MeanChange = <<3, 2>>
    /\ drift.overallStability = Zero

(* Repeat loops                                                            *)

LoopsRun == "detectRepeatLoops" \in done

\* The positions of the history at which a track id was played
EventsOf(id) == {i \in 1..Len(recentlyPlayed) : recentlyPlayed[i].track.id = id}

FirstEvent(id) == CHOOSE i \in EventsOf(id) : \A j \in EventsOf(id) : i <= j

\* The times an id was played at, in the order of the history
TimesOf(id) ==
    LET events == SelectSeq(recentlyPlayed, LAMBDA p : p.track.id = id)
    IN  [i \in 1..Len(events) |-> events[i].played_at]

RepeatedIds == {id \in {recentlyPlayed[i].track.id : i \in 1..Len(recentlyPlayed)} : Cardinality(EventsOf(id)) >= 2}

RECURSIVE CountSum(_)
CountSum(loops) == IF loops = <<>> THEN 0 ELSE Head(loops).count + CountSum(Tail(loops))

LoopIds == {repeatLoops[i].trackId : i \in 1..Len(repeatLoops)}

LoopEvents == {i \in 1..Len(recentlyPlayed) : recentlyPlayed[i].track.id \in LoopIds}

\* C13: the counts of the detected repeat loops add up to no more than the
\* number of plays of the tracks that have a loop, hence to no more than the
\* length of the play history.
C13_LoopCountsBounded ==
    LoopsRun =>
        /\ CountSum(repeatLoops) <= Cardinality(LoopEvents)
        /\ CountSum(repeatLoops) <= Len(recentlyPlayed)

\* A loop of four plays next to a play of a track that has none
C13_Witness ==
    /\ LoopsRun
    /\ Len(repeatLoops) = 1
    /\ CountSum(repeatLoops) = 4
    /\ Cardinality(LoopEvents) = 4
    /\ Len(recentlyPlayed) = 5

NocturnalRun == "analyzeNocturnalBehavior" \in done

\* A loop with a play in the hours 0 to 5
PlayedAtNight(loop) == \E i \in 1..Len(loop.timestamps) : loop.timestamps[i] % 24 \in 0..5

\* C14: the profile's loops (nightLoops) are the repeat loops with at least
\* one timestamp whose hour is in 0..5, and its sadnessLoops are those of them
\* with a mean valence strictly below 0.4, both in the order of the repeat
\* loops.
C14_NightAndSadnessLoops ==
    (LoopsRun /\ NocturnalRun) =>
        /\ nocturnal.loops = SelectSeq(repeatLoops, PlayedAtNight)
        /\ nocturnal.sadnessLoops =
              SelectSeq(nocturnal.loops, LAMBDA l : RLt(l.avgValence, <<4, 10>>))

\* Two repeat loops, one played at 5 AM with a mean valence of 0.35, the
\* other played at 6 AM only
C14_Witness ==
    /\ LoopsRun
    /\ NocturnalRun
    /\ Len(repeatLoops) = 2
    /\ Len(nocturnal.loops) = 1
    /\ nocturnal.sadnessLoops = nocturnal.loops
    /\ nocturnal.loops[1].avgValence = <<7, 20>>
    /\ \E i \in 1..2 : \A k \in 1..Len(repeatLoops[i].timestamps) :
          repeatLoops[i].timestamps[k] % 24 = 6

(* Insomnia                                                                *)

InsomniaRun == "detectInsomniaPatterns" \in done

HourOf(play) == play.played_at % 24

DateOf(play) == play.played_at \div 24

\* The calendar dates with a play in the hours 2 to 5
LateNightDates ==
    {DateOf(recentlyPlayed[i]) : i \in {k \in 1..Len(recentlyPlayed) : HourOf(recentlyPlayed[k]) \in 2..5}}

\* C15: hasInsomniaPattern holds exactly when the plays with an hour in 2..5
\* fall on at least three distinct calendar dates, and lateNightDays is the
\* number of these dates; plays at the hours 0 and 1 add nothing to it.
C15_InsomniaPattern ==
    InsomniaRun =>
        /\ insomnia.hasInsomniaPattern <=> Cardinality(LateNightDates) >= 3
        /\ insomnia.lateNightDays = Cardinality(LateNightDates)

\* Plays at 2 to 5 AM on three dates
C15_Witness ==
    /\ InsomniaRun
    /\ insomnia.hasInsomniaPattern
    /\ Len(recentlyPlayed) = 3
    /\ \E i \in 1..3 : HourOf(recentlyPlayed[i]) = 2
    /\ \E i \in 1..3 : HourOf(recentlyPlayed[i]) = 5

(* Night confrontation                                                     *)

NightBuckets == {"low_valence_night", "insomnia", "high_night", "moderate_night", "low_night"}

\* The bucket the first matching test picks, from the profile's own numbers
NightBucket ==
    IF RGt(nocturnal.nightRatio, <<1, 5>>) /\ RLt(nocturnal.nightValence, <<7, 20>>)
    THEN "low_valence_night"
    ELSE IF nocturnal.insomniaIndicators THEN "insomnia"
    ELSE IF RGt(nocturnal.nightRatio, <<1, 4>>) THEN "high_night"
    ELSE IF RGt(nocturnal.nightRatio, <<1, 10>>) THEN "moderate_night"
    ELSE "low_night"

\* The sentences a bucket can come out as
SentencesOf(bucket) ==
    CASE bucket = "low_valence_night" ->
            {ConfessionalSentence}
                \cup {SadLoopSentence(nocturnal.sadnessLoops[i].trackName) :
                         i \in 1..Len(nocturnal.sadnessLoops)}
      [] bucket = "insomnia" -> {InsomniaSentence(Cardinality(LateNightDates))}
      [] bucket = "high_night" -> {NightCreatureSentence}
      [] bucket = "moderate_night" -> {NightSoundtrackSentence}
      [] bucket = "low_night" -> {DisciplinedSentence}

ProfileIdentityRun == "calculateIdentityProfile" \in done

InUnitInterval(x) == ~RLt(x, Zero) /\ ~RGt(x, One)

NightEvents == {i \in 1..Len(recentlyPlayed) : recentlyPlayed[i].played_at % 24 \in 0..5}

\* C20: mainstreamPercentage and nightRatio lie in [0, 1]; nightRatio is the
\* number of plays at the hours 0..5 over the number of plays; each is 0 for
\* an empty input (no genres, no plays).
C20_SharesInUnitInterval ==
    /\ ProfileIdentityRun =>
          /\ InUnitInterval(identity.mainstreamPercentage)
          /\ identity.actualTopGenres = <<>> => identity.mainstreamPercentage = Zero
    /\ NocturnalRun =>
          /\ InUnitInterval(nocturnal.nightRatio)
          /\ recentlyPlayed # <<>> =>
                nocturnal.nightRatio = Rat(Cardinality(NightEvents), Len(recentlyPlayed))
          /\ recentlyPlayed = <<>> => nocturnal.nightRatio = Zero

\* Both shares strictly between 0 and 1: a mainstream artist ranked ahead of a
\* jazz artist, two of three plays at night
C20_Witness ==
    /\ ProfileIdentityRun
    /\ NocturnalRun
    /\ identity.mainstreamPercentage = <<6, 7>>
    /\ nocturnal.nightRatio = <<2, 3>>

(* The whole profile                                                       *)

Built == "buildListeningProfile" \in done

BuiltAgain == "again" \in done

\* C21: a second buildListeningProfile on the same inputs, at whatever later
\* time, returns the profile the first one returned; no date of the arc is
\* read from the clock.
C21_Reproducible ==
    /\ BuiltAgain => rerun = listeningProfile
    /\ Built =>
          \A i \in 1..Len(listeningProfile.emotional.energyArc) :
             \E k \in 1..Len(recentlyPlayed) :
                listeningProfile.emotional.energyArc[i].date = recentlyPlayed[k].played_at

\* Two calls two seconds apart on a history in which a play has no sample
C21_Witness ==
    /\ BuiltAgain
    /\ now = 2000
    /\ Len(recentlyPlayed) = 3
    /\ Len(rerun.emotional.energyArc) = 2
    /\ topArtists # <<>>

EmptyInputs ==
    /\ topArtists = <<>>
    /\ topTracks = <<>>
    /\ recentlyPlayed = <<>>
    /\ audioFeatures = NoFeatures
    /\ byRange = EmptyRanges

\* The parts of the empty-input profile other than the emotional means
EmptyProfileDefaults ==
    /\ listeningProfile.identity.mainstreamPercentage = Zero
    /\ listeningProfile.identity.artistDiversity = Zero
    /\ listeningProfile.identity.hipsterScore = <<7, 10>>
    /\ listeningProfile.behavioral.circadianPatterns.nightRatio = Zero
    /\ listeningProfile.behavioral.circadianPatterns.averageNightValence = <<1, 2>>
    /\ listeningProfile.behavioral.circadianPatterns.loops = <<>>
    /\ listeningProfile.behavioral.circadianPatterns.sadnessLoops = <<>>
    /\ listeningProfile.behavioral.obsessionLoops = <<>>
    /\ listeningProfile.behavioral.phaseShifts = <<>>
    /\ listeningProfile.behavioral.comfortZoneMetrics.genreEntropy = Zero
    /\ listeningProfile.behavioral.comfortZoneMetrics.bpmRange = [min |-> 60, max |-> 180]
    /\ listeningProfile.emotional.valenceVolatility = Real(Zero)
    /\ listeningProfile.emotional.oscillationPattern = Zero
    /\ listeningProfile.emotional.copingIndicators = <<>>
    /\ listeningProfile.emotional.melancholyClusters = <<>>
    /\ \A i \in 1..Len(listeningProfile.temporal.quarterlyBreakdown) :
          /\ listeningProfile.temporal.quarterlyBreakdown[i].averageValence = <<1, 2>>
          /\ listeningProfile.temporal.quarterlyBreakdown[i].averageEnergy = <<1, 2>>

\* C22: on empty artists, tracks, history, store and windows the profile has
\* every ratio and entropy at 0, every valence and energy mean at 0.5 (the
\* emotional means, the night valence, each window's means), hipsterScore 0.7
\* (mean popularity 50), bpmRange 60..180, and no coping signal, cluster,
\* loop or phase transition.
C22_EmptyProfile ==
    (Built /\ EmptyInputs) =>
        /\ EmptyProfileDefaults
        /\ listeningProfile.emotional.averageValence = <<1, 2>>
        /\ listeningProfile.emotional.averageEnergy = <<1, 2>>

(* Oscillation                                                             *)

\* The interior positions of the samples at which a test is met
EnergySwings ==
    {i \in 2..(Len(Samples) - 1) :
        /\ RGt(Samples[i - 1].energy, <<7, 10>>)
        /\ RLt(Samples[i].valence, <<4, 10>>)
        /\ RGt(Samples[i + 1].energy, <<7, 10>>)}

ValenceSwings ==
    {i \in 2..(Len(Samples) - 1) :
        /\ RGt(Samples[i - 1].valence, <<7, 10>>)
        /\ RLt(Samples[i].valence, <<3, 10>>)
        /\ RGt(Samples[i + 1].valence, <<7, 10>>)}

\* C23: the oscillation score is 0 for fewer than 3 samples; otherwise it is
\* the number of energy swings (energy > 0.7, valence < 0.4, energy > 0.7)
\* plus the number of valence swings (valence > 0.7, < 0.3, > 0.7) over the
\* interior positions, divided by the sample count; a position can count
\* twice, and the score is at most 2(n - 2)/n.
C23_OscillationScore ==
    EmotionalRun =>
        LET n == Len(Samples)
        IN  /\ n < 3 => emotional.oscillationPattern = Zero
            /\ n >= 3 =>
                  /\ emotional.oscillationPattern =
                        Rat(Cardinality(EnergySwings) + Cardinality(ValenceSwings), n)
                  /\ ~RGt(emotional.oscillationPattern, Rat(2 * (n - 2), n))

\* Three samples whose middle one meets both tests: a score of 2/3
C23_Witness ==
    /\ EmotionalRun
    /\ Len(Samples) = 3
    /\ EnergySwings = {2}
    /\ ValenceSwings = {2}
    /\ emotional.oscillationPattern = <<2, 3>>

(* Genre entropy                                                           *)

\* A list of k genres of equal weight
EquallyWeighted(gs, k) ==
    /\ Len(gs) = k
    /\ \A i, j \in 1..Len(gs) : gs[i].weight = gs[j].weight

\* 0, 1, 2, 3 bits for 1, 2, 4, 8 genres
BitsFor(k) == CASE k = 1 -> 0 [] k = 2 -> 1 [] k = 4 -> 2 [] k = 8 -> 3

\* C24: both calculateGenreEntropy functions return 0 for an empty genre
\* list and log2(k) for k equally weighted genres, k in {1, 2, 4, 8}.
C24_EntropyOfEqualShares ==
    /\ "zoneEntropy" \in done =>
          /\ genres = <<>> => zoneEntropy = Zero
          /\ \A k \in {1, 2, 4, 8} :
                EquallyWeighted(genres, k) => zoneEntropy = <<BitsFor(k), 1>>
    /\ "windowEntropy" \in done =>
          /\ proxyGenres = <<>> => windowEntropy = Zero
          /\ \A k \in {1, 2, 4, 8} :
                EquallyWeighted(proxyGenres, k) => windowEntropy = <<BitsFor(k), 1>>

\* Eight genres of one artist: 3 bits from both functions
C24_Witness ==
    /\ "zoneEntropy" \in done
    /\ "windowEntropy" \in done
    /\ EquallyWeighted(genres, 8)
    /\ EquallyWeighted(proxyGenres, 8)
    /\ zoneEntropy = <<3, 1>>
    /\ windowEntropy = <<3, 1>>

(* Hipster score                                                           *)

RECURSIVE PopularitySum(_)
PopularitySum(artists) ==
    IF artists = <<>> THEN 0 ELSE Head(artists).popularity + PopularitySum(Tail(artists))

MeanPopularity ==
    IF topArtists = <<>> THEN <<50, 1>> ELSE Rat(PopularitySum(topArtists), Len(topArtists))

\* C25: hipsterScore = 0.6 * (1 - meanPopularity / 100)
\* + 0.4 * (1 - mainstreamPercentage), with a mean popularity of 50 for an
\* empty artist list; it lies in [0, 1], and is 0.7 for an empty artist list.
C25_HipsterScore ==
    ProfileIdentityRun =>
        /\ identity.hipsterScore =
              RAdd(RMul(<<6, 10>>, RSub(One, RDiv(MeanPopularity, <<100, 1>>))),
                   RMul(<<4, 10>>, RSub(One, identity.mainstreamPercentage)))
        /\ InUnitInterval(identity.hipsterScore)
        /\ topArtists = <<>> => identity.hipsterScore = <<7, 10>>

\* The artist of popularity 95, all of whose genres are mainstream, ahead of
\* the one of popularity 5 without genres: a mean of 50 and a score of 0.3
C25_Witness ==
    /\ ProfileIdentityRun
    /\ Len(topArtists) = 2
    /\ topArtists[1].popularity = 95
    /\ topArtists[2].popularity = 5
    /\ identity.mainstreamPercentage = One
    /\ identity.hipsterScore = <<3, 10>>

(* Samples and timestamps of the emotional step                            *)

\* Whether the j-th play of the history has a stored sample
Sampled(j) == HasFeatures(audioFeatures, recentlyPlayed[j].track.id)

\* The position in the history of the play the i-th sample comes from
PlayOf(i) ==
    CHOOSE j \in 1..Len(recentlyPlayed) :
        /\ Sampled(j)
        /\ Cardinality({h \in 1..j : Sampled(h)}) = i

\* C27: the i-th sample and the i-th timestamp handed to the emotional
\* analyzer belong to the same play event, also when some plays have no
\* sample; every melancholy cluster's start and end are the timestamps of its
\* first and last member samples.
C27_SamplesAligned ==
    EmotionalRun =>
        /\ \A i \in 1..Len(Samples) :
              Timestamps(recentlyPlayed)[i] = recentlyPlayed[PlayOf(i)].played_at
        /\ \A k \in 1..Len(emotional.melancholyClusters) :
              /\ emotional.melancholyClusters[k].start =
                    recentlyPlayed[PlayOf(RunAt(k)[1])].played_at
              /\ emotional.melancholyClusters[k].end =
                    recentlyPlayed[PlayOf(RunAt(k)[2])].played_at

\* The same without the plays that have no sample
C27_AlignedWhenAllSampled ==
    (EmotionalRun /\ \A j \in 1..Len(recentlyPlayed) : Sampled(j)) =>
        /\ \A i \in 1..Len(Samples) :
              Timestamps(recentlyPlayed)[i] = recentlyPlayed[PlayOf(i)].played_at
        /\ \A k \in 1..Len(emotional.melancholyClusters) :
              /\ emotional.melancholyClusters[k].start =
                    recentlyPlayed[PlayOf(RunAt(k)[1])].played_at
              /\ emotional.melancholyClusters[k].end =
                    recentlyPlayed[PlayOf(RunAt(k)[2])].played_at

(* Coping flags of the energy arc                                          *)

\* Whether the i-th sample is a member of a detected melancholy cluster
ClusterMember(i) == \E r \in LongRuns : r[1] <= i /\ i <= r[2]

\* C28: an arc point has isCopingCluster = true exactly when its sample is a
\* member of a detected melancholy cluster, for every history, also one
\* listed newest first.
C28_CopingFlags ==
    EmotionalRun =>
        \A i \in 1..Len(emotional.energyArc) :
            emotional.energyArc[i].isCopingCluster <=> ClusterMember(i)

\* A history listed oldest first
OldestFirst ==
    \A i, j \in 1..Len(recentlyPlayed) :
        i < j => recentlyPlayed[i].played_at < recentlyPlayed[j].played_at

\* The same for the histories listed oldest first
C28_FlagsWhenOldestFirst ==
    (EmotionalRun /\ OldestFirst) =>
        \A i \in 1..Len(emotional.energyArc) :
            emotional.energyArc[i].isCopingCluster <=> ClusterMember(i)

(* Coping signals                                                          *)

SignalRank(type) ==
    CASE type = "repeat_loop" -> 1
      [] type = "energy_crash" -> 2
      [] type = "night_sadness" -> 3
      [] OTHER -> 0

Signals(type) == SelectSeq(emotional.copingIndicators, LAMBDA c : c.type = type)

RECURSIVE EnergySumOver(_)
EnergySumOver(ids) ==
    IF ids = {} THEN Zero
    ELSE LET id == CHOOSE x \in ids : TRUE
         IN  RAdd(audioFeatures[id].energy, EnergySumOver(ids \ {id}))

RECURSIVE SquaredDistanceSumOver(_, _)
SquaredDistanceSumOver(ids, mean) ==
    IF ids = {} THEN Zero
    ELSE LET id == CHOOSE x \in ids : TRUE
         IN  RAdd(RSquare(RSub(audioFeatures[id].energy, mean)),
                  SquaredDistanceSumOver(ids \ {id}, mean))

\* The population variance of energy over the store, one sample per track id
StoreEnergyVariance ==
    LET ids == DOMAIN audioFeatures
        n == Cardinality(ids)
    IN  IF n = 0 THEN Zero
        ELSE RDiv(SquaredDistanceSumOver(ids, RDiv(EnergySumOver(ids), <<n, 1>>)), <<n, 1>>)

RECURSIVE ClusterLengthSum(_)
ClusterLengthSum(clusters) ==
    IF clusters = <<>> THEN 0
    ELSE Head(clusters).repeatCount + ClusterLengthSum(Tail(clusters))

\* C29: copingIndicators holds at most one signal of each of repeat_loop,
\* energy_crash, night_sadness, in that order, and never genre_retreat;
\* night_sadness is there iff melancholyClusters is non-empty, with severity
\* min(sum of the cluster lengths / 50, 1); energy_crash is there iff the
\* population deviation of energy over the store exceeds 0.25; every severity
\* lies in (0, 1].
C29_CopingSignals ==
    EmotionalRun =>
        LET signals == emotional.copingIndicators
        IN  /\ \A i \in 1..Len(signals) : SignalRank(signals[i].type) \in 1..3
            /\ \A i, j \in 1..Len(signals) :
                  i < j => SignalRank(signals[i].type) < SignalRank(signals[j].type)
            /\ Len(Signals("night_sadness")) = 1 <=> Len(emotional.melancholyClusters) > 0
            /\ \A i \in 1..Len(signals) :
                  signals[i].type = "night_sadness" =>
                      signals[i].severity =
                          Real(RMin(Rat(ClusterLengthSum(emotional.melancholyClusters), 50), One))
            /\ Len(Signals("energy_crash")) = 1 <=> RGt(StoreEnergyVariance, <<1, 16>>)
            /\ \A i \in 1..Len(signals) :
                  /\ RealGt(signals[i].severity, Zero)
                  /\ ~RealGt(signals[i].severity, One)

\* All three signals at once: four plays of a low-valence track, a store
\* whose energies are 0.1 and 0.9, and one cluster of four samples
C29_Witness ==
    /\ EmotionalRun
    /\ Len(emotional.copingIndicators) = 3
    /\ emotional.copingIndicators[1].type = "repeat_loop"
    /\ emotional.copingIndicators[2].type = "energy_crash"
    /\ emotional.copingIndicators[3].type = "night_sadness"
    /\ emotional.copingIndicators[3].severity = Real(<<2, 25>>)

(* The session of the SpotifyService                                       *)

\* The step just taken is a call of op, or its continuation after an await
Called(op) == calls' # calls /\ outcome'.op = op

\* Both keys of a session are stored
BothStored(storage) ==
    storage["spotify_access_token"] # NULL /\ storage["spotify_token_expiry"] # NULL

\* C26: initializeFromStorage returns true, with the stored token held,
\* exactly when both the access token and the expiry are stored and now is
\* before the expiry; with an expired session it returns false and leaves
\* nothing in memory or in the four stored keys; with either key missing it
\* returns false and changes nothing.
C26_Restore ==
    [][Called("initializeFromStorage") =>
          LET restorable ==
                  /\ BothStored(localStorage)
                  /\ now < parseInt(localStorage["spotify_token_expiry"])
          IN  /\ outcome'.returned = (IF restorable THEN "true" ELSE "false")
              /\ outcome'.threw = "none"
              /\ restorable =>
                    /\ accessToken' = localStorage["spotify_access_token"]
                    /\ accessToken' # NULL
                    /\ localStorage' = localStorage
              /\ (BothStored(localStorage) /\ ~restorable) =>
                    /\ accessToken' = NULL
                    /\ localStorage' = EmptyStorage
              /\ ~BothStored(localStorage) =>
                    UNCHANGED <<accessToken, tokenExpiry, localStorage>>]_vars

\* A session found at the very instant of its expiry: refused and removed
C26_Witness ==
    /\ outcome.op = "initializeFromStorage"
    /\ outcome.returned = "false"
    /\ BothStored(outcome.found)
    /\ parseInt(outcome.found["spotify_token_expiry"]) = now
    /\ outcome.found["spotify_code_verifier"] # NULL
    /\ accessToken = NULL
    /\ localStorage = EmptyStorage

\* Neither the instance nor localStorage holds an access token
NoSession == accessToken = NULL /\ localStorage["spotify_access_token"] = NULL

\* An answer of the API takes a request off the awaited ones
Answered == Len(inFlight') < Len(inFlight)

C30_Step ==
    /\ (Called("request") /\ ~Answered /\ accessToken = NULL) =>
          /\ outcome'.threw = "Not authenticated"
          /\ inFlight' = inFlight
    /\ (Called("request") /\ Answered /\ outcome'.threw = "Token expired") =>
          /\ accessToken' = NULL
          /\ localStorage' = EmptyStorage
    /\ (NoSession /\ ~NoSession') =>
          Called("handleCallback") /\ outcome'.returned = "true"
    /\ (Called("handleCallback") /\ outcome'.returned # "true") =>
          UNCHANGED <<accessToken, tokenExpiry, localStorage>>

\* C30: a request without a token fails with 'Not authenticated' and sends
\* nothing; a 401 leaves no token in memory and none of the stored session
\* keys when 'Token expired' is raised, and from then on there is no session,
\* so that every request fails unsent, until a handleCallback succeeds; a
\* handleCallback that fails stores no token.
C30_SessionLifecycle == [][C30_Step]_vars

\* A 401 for one of two awaited requests: the token, the refresh token, the
\* expiry and the verifier it found are gone when 'Token expired' is raised
C30_Witness ==
    /\ outcome.op = "request"
    /\ outcome.threw = "Token expired"
    /\ \A k \in StorageKeys : outcome.found[k] # NULL
    /\ Len(inFlight) = 1
    /\ accessToken = NULL
    /\ localStorage = EmptyStorage
====
